---- MODULE Spec2Model ----
(***************************************************************************)
(* Registration, bib allocation and participant management of the          *)
(* Data-Engagement-Dashboard (App/controllers/hr.py, App/models/user.py).  *)
(*                                                                         *)
(* The entity store is the record db, one field per table, each table a    *)
(* set of rows.  A handler works on a view of the store (its SQLAlchemy     *)
(* session: the committed rows plus the rows it has flushed) and the store *)
(* changes only when the handler commits; an exception leaves the handler  *)
(* before its commit and the session is discarded with the request.        *)
(*                                                                         *)
(* Text values that the code converts (bib values, names, sex) are         *)
(* sequences of one-character strings, so that int(), str(), strip() and   *)
(* upper() are computed, not assumed.  A nullable column is <<>> for NULL  *)
(* and <<x>> for the value x.                                              *)
(***************************************************************************)
EXTENDS Integers, Sequences, FiniteSets, TLC

\* ------------------------------------------------------------- bounds
\* Largest participant id handed out.
MaxParticipantId == 2
\* BibNo rows in the store (BibNo rows are never deleted).
MaxBibs == 3
\* Length of the season_event_ids list of one register request.
MaxBatch == 2
\* Concurrent register requests in SpecRace.
NumRequests == 2
\* Allocator look-ups logged between two assignments in SpecAlloc.
MaxCalls == 2
\* BibNo rows a store of SpecAlloc holds from before the first request.
MaxLegacy == 2
\* Largest ids handed out in SpecAdmin, added over the Event, SeasonEvent
\* and Stage tables.
MaxCatalogueIds == 5
\* Registration rows and Result rows in a store of SpecMetrics.
MaxRegs == 3
MaxResults == 2

VARIABLES
    db,     \* the committed entity store
    last,   \* the last handler call and what it returned
    req,    \* SpecRace: the register requests in flight, each with its session
    calls   \* SpecAlloc: the allocator look-ups since the last assignment

vars == <<db, last, req, calls>>

\* ------------------------------------------------------------- text
Digits == <<"0", "1", "2", "3", "4", "5", "6", "7", "8", "9">>

IsDigit(c) == \E d \in 1..10 : Digits[d] = c

DigitVal(c) == (CHOOSE d \in 1..10 : Digits[d] = c) - 1

\* int(s) raises ValueError unless s is a decimal numeral.  (Python also
\* accepts surrounding blanks, a sign and underscores; the bib values of the
\* model are made of digits and letters only.)
IsNumeral(s) == Len(s) > 0 /\ \A i \in 1..Len(s) : IsDigit(s[i])

RECURSIVE ToInt(_)
ToInt(s) ==
    IF Len(s) = 0 THEN 0
    ELSE 10 * ToInt(SubSeq(s, 1, Len(s) - 1)) + DigitVal(s[Len(s)])

RECURSIVE Str(_)
Str(n) ==
    IF n < 10 THEN <<Digits[n + 1]>>
    ELSE Append(Str(n \div 10), Digits[(n % 10) + 1])

\* ------------------------------------------------------------- store
\* The institutions that have an HR account, whose id the hr_api views pass
\* to the handlers: seed.py creates HR users for CBTT and FCIT, the first two
\* institutions it inserts.
Institutions == {1, 2}

\* Primary keys: INTEGER PRIMARY KEY of SQLite (the engine of the tests'
\* sqlite:/// URI) gives a new row the largest id of the table plus one.
MaxId(rows) == IF rows = {} THEN 0 ELSE CHOOSE m \in {r.id : r \in rows} : \A r \in rows : r.id <= m

NewId(rows) == MaxId(rows) + 1

Null == <<>>

Some(x) == <<x>>

NoError == "none"

\* ------------------------------------------------------------- bib allocator
\* A filter that forgets the institution.
PairBibsAnyInstitution(v, season_id, institution_id) ==
    {b \in v.bibNos : b.season_id = season_id}

\* BibNo.query.filter_by(season_id=..., institution_id=...)
PairBibs(v, season_id, institution_id) ==
    {b \in v.bibNos : b.season_id = season_id /\ b.institution_id = institution_id}

\* .order_by(BibNo.id.desc()).first()
LatestBib(rows) == CHOOSE b \in rows : \A c \in rows : c.id <= b.id

\* Whether the lookup takes the count-based path: no row of the pair, or a
\* latest row whose value int() rejects (ValueError).
CountDriven(v, season_id, institution_id) ==
    LET rows == PairBibs(v, season_id, institution_id) IN
    rows = {} \/ ~IsNumeral(LatestBib(rows).bib_value)

\* str(int(existing.bib_value) + 1)
LatestPlusOne(v, season_id, institution_id) ==
    Str(ToInt(LatestBib(PairBibs(v, season_id, institution_id)).bib_value) + 1)

\* str(1001 + count)
CountBased(v, season_id, institution_id) ==
    Str(1001 + Cardinality(PairBibs(v, season_id, institution_id)))

\* _next_bib on one view of the store: the latest BibNo of the pair plus one,
\* else 1001 + count.
NextBib(v, season_id, institution_id) ==
    IF CountDriven(v, season_id, institution_id)
    THEN CountBased(v, season_id, institution_id)
    ELSE LatestPlusOne(v, season_id, institution_id)

\* A store without the unique constraint on BibNo.
BibNoUniqueOff(rows, season_id, bib_value) == TRUE

\* UniqueConstraint('season_id', 'bib_value') of BibNo: whether a row with
\* this value may be inserted beside rows.
BibNoUnique(rows, season_id, bib_value) ==
    ~\E b \in rows : b.season_id = season_id /\ b.bib_value = bib_value

\* A store and a handler that let a participant register twice.
RegistrationUniqueOff(rows, participant_id, season_event_id) == TRUE

\* UniqueConstraint('participant_id', 'season_event_id') of Registration, and
\* the handler's own look-up for an existing registration (lines 368-371).
RegistrationUnique(rows, participant_id, season_event_id) ==
    ~\E r \in rows : r.participant_id = participant_id /\ r.season_event_id = season_event_id

\* ------------------------------------------------------------- register
\* Participant.query.filter_by(id=..., institution_id=...).first()
OwnedParticipantAnyInstitution(v, participant_id, institution_id) ==
    {p \in v.participants : p.id = participant_id}

OwnedParticipant(v, participant_id, institution_id) ==
    {p \in v.participants : p.id = participant_id /\ p.institution_id = institution_id}

EventName(v, se) == (CHOOSE e \in v.events : e.id = se.event_id).name

\* One pass of the loop of register_participant_for_events over a session
\* st = [v: the session's view, created: the list built so far, error].
\* An IntegrityError of a flush ends the call: later passes do nothing.
RegisterOne(st, participant_id, se_id, institution_id) ==
    LET ses == {se \in st.v.seasonEvents : se.id = se_id} IN
    IF st.error # NoError THEN st
    ELSE IF ses = {} THEN st
    ELSE IF ~RegistrationUnique(st.v.registrations, participant_id, se_id) THEN st
    ELSE
        LET se  == CHOOSE x \in ses : TRUE
            reg == [id |-> NewId(st.v.registrations),
                    participant_id |-> participant_id,
                    season_event_id |-> se_id]
            v1  == [st.v EXCEPT !.registrations = @ \cup {reg}]
            bib_val == NextBib(v1, se.season_id, institution_id)
            bib == [id |-> NewId(v1.bibNos), bib_value |-> bib_val,
                    season_id |-> se.season_id, institution_id |-> institution_id]
            assignment == [registration_id |-> reg.id, bib_no_id |-> bib.id,
                           status |-> "active"]
        IN  IF ~BibNoUnique(v1.bibNos, se.season_id, bib_val)
            THEN [st EXCEPT !.v = v1, !.error = "IntegrityError"]
            ELSE [v |-> [v1 EXCEPT !.bibNos = @ \cup {bib},
                                   !.bibNoAssignments = @ \cup {assignment}],
                  created |-> Append(st.created,
                                     [registration_id |-> reg.id,
                                      event_name |-> EventName(st.v, se),
                                      bib_no |-> bib_val]),
                  error |-> NoError]

RECURSIVE RegisterLoop(_, _, _, _)
RegisterLoop(st, participant_id, season_event_ids, institution_id) ==
    IF season_event_ids = <<>> THEN st
    ELSE RegisterLoop(RegisterOne(st, participant_id, Head(season_event_ids), institution_id),
                      participant_id, Tail(season_event_ids), institution_id)

\* A handler that commits what it has flushed even when it fails.
PersistedPartial(before, st) == st.v

\* db.session.commit() at the end of the handler; a call that raised never
\* reaches it and its session is rolled back when the request ends.
Persisted(before, st) == IF st.error = NoError THEN st.v ELSE before

\* register_participant_for_events as one call on the store v: the store
\* after it, the list it returns and its error.
RegisterCall(v, participant_id, season_event_ids, institution_id) ==
    IF OwnedParticipant(v, participant_id, institution_id) = {}
    THEN [v |-> v, created |-> <<>>, error |-> "Participant not found", flushed |-> 0]
    ELSE LET st == RegisterLoop([v |-> v, created |-> <<>>, error |-> NoError],
                                participant_id, season_event_ids, institution_id)
         IN  [v |-> Persisted(v, st),
              created |-> IF st.error = NoError THEN st.created ELSE <<>>,
              error |-> st.error,
              flushed |-> Cardinality(st.v.registrations \ v.registrations)]

\* ------------------------------------------------------------- participants
Lower == <<"a", "b", "c", "d", "e", "f", "g", "h", "i", "j", "k", "l", "m",
           "n", "o", "p", "q", "r", "s", "t", "u", "v", "w", "x", "y", "z">>

Upper == <<"A", "B", "C", "D", "E", "F", "G", "H", "I", "J", "K", "L", "M",
           "N", "O", "P", "Q", "R", "S", "T", "U", "V", "W", "X", "Y", "Z">>

\* str.upper(), one character at a time.
UpperChar(c) ==
    IF \E i \in 1..26 : Lower[i] = c
    THEN Upper[CHOOSE i \in 1..26 : Lower[i] = c]
    ELSE c

UpperStr(s) == [i \in 1..Len(s) |-> UpperChar(s[i])]

\* str.strip(): blanks off both ends.
RECURSIVE LStrip(_)
LStrip(s) == IF Len(s) > 0 /\ Head(s) = " " THEN LStrip(Tail(s)) ELSE s

RECURSIVE RStrip(_)
RStrip(s) ==
    IF Len(s) > 0 /\ s[Len(s)] = " " THEN RStrip(SubSeq(s, 1, Len(s) - 1)) ELSE s

Strip(s) == RStrip(LStrip(s))

\* s[:1]
FirstChar(s) == IF Len(s) = 0 THEN <<>> ELSE <<s[1]>>

\* x or None, for a text x.
OrNone(s) == IF Len(s) = 0 THEN Null ELSE Some(s)

\* data.get(key) or '' : a missing key reads as the empty text.
GetText(data, key) == IF key \in DOMAIN data THEN data[key] ELSE <<>>

\* date.today(), as a proleptic Gregorian ordinal (3 November 2026).
Today == 739923

\* datetime.strptime(s, '%Y-%m-%d').date() on the date texts of the model:
\* the ordinal of a text that names a calendar day; any other text raises
\* ValueError.
Calendar ==
    [d \in {"2010-06-15", "1990-01-01", "1960-05-20"} |->
        CASE d = "2010-06-15" -> 733938
          [] d = "1990-01-01" -> 726468
          [] d = "1960-05-20" -> 715650]

IsDate(s) == s \in DOMAIN Calendar

\* _calc_division(sex, birth_date) for a stored sex (NULL or text) and a
\* stored birth date (NULL or ordinal).
CalcDivision(sex, birth_date) ==
    IF sex = Null \/ birth_date = Null THEN Null
    ELSE LET age == (Today - birth_date[1]) \div 365
             prefix == UpperChar(sex[1][1])
             suffix == IF age < 20 THEN <<"2", "0", "2", "9">>
                       ELSE IF age < 30 THEN <<"3", "0", "3", "9">>
                       ELSE IF age < 40 THEN <<"4", "0", "4", "9">>
                       ELSE IF age < 50 THEN <<"5", "0", "5", "9">>
                       ELSE <<"6", "0", "+">>
         IN  Some(<<prefix>> \o suffix)

\* create_participant followed by the commit of the add_participant view:
\* the store after the call, the new participant's id (0 when none) and the
\* error.
CreateParticipantCall(v, data, institution_id) ==
    LET fn == Strip(GetText(data, "first_name"))
        ln == Strip(GetText(data, "last_name"))
        bd_str == IF "birth_date" \in DOMAIN data THEN data["birth_date"] ELSE ""
        bd == IF bd_str = "" THEN Null ELSE Some(Calendar[bd_str])
        sex == OrNone(FirstChar(UpperStr(Strip(GetText(data, "sex")))))
        div == IF sex # Null /\ bd # Null THEN CalcDivision(sex, bd)
               ELSE OrNone(GetText(data, "division"))
        p == [id |-> NewId(v.participants),
              first_name |-> fn, last_name |-> ln,
              institution_id |-> institution_id,
              birth_date |-> bd, sex |-> sex, division |-> div,
              email |-> OrNone(Strip(GetText(data, "email"))),
              contact |-> OrNone(Strip(GetText(data, "contact")))]
    IN  IF Len(fn) = 0 \/ Len(ln) = 0
        THEN [v |-> v, id |-> 0, error |-> "first_name and last_name are required"]
        ELSE IF bd_str # "" /\ ~IsDate(bd_str)
        THEN [v |-> v, id |-> 0, error |-> "Invalid birth_date format: " \o bd_str]
        ELSE [v |-> [v EXCEPT !.participants = @ \cup {p}], id |-> p.id, error |-> NoError]

\* A delete that leaves the bib assignments of the deleted registrations.
DeleteRowsKeepAssignments(v, p) ==
    LET regs == {r.id : r \in {x \in v.registrations : x.participant_id = p.id}} IN
    [v EXCEPT !.results = {x \in @ : x.registration_id \notin regs},
              !.bibTagAssignments = {x \in @ : x.registration_id \notin regs},
              !.registrations = {x \in @ : x.participant_id # p.id},
              !.participants = @ \ {p}]

\* A delete that leaves the results of the deleted registrations.
DeleteRowsKeepResults(v, p) ==
    LET regs == {r.id : r \in {x \in v.registrations : x.participant_id = p.id}} IN
    [v EXCEPT !.bibNoAssignments = {x \in @ : x.registration_id \notin regs},
              !.bibTagAssignments = {x \in @ : x.registration_id \notin regs},
              !.registrations = {x \in @ : x.participant_id # p.id},
              !.participants = @ \ {p}]

\* The deletes of delete_participant: the results and bib assignments of the
\* participant's registrations, the registrations, the participant.  BibNo
\* rows stay.
DeleteRows(v, p) ==
    LET regs == {r.id : r \in {x \in v.registrations : x.participant_id = p.id}} IN
    [v EXCEPT !.results = {x \in @ : x.registration_id \notin regs},
              !.bibNoAssignments = {x \in @ : x.registration_id \notin regs},
              !.bibTagAssignments = {x \in @ : x.registration_id \notin regs},
              !.registrations = {x \in @ : x.participant_id # p.id},
              !.participants = @ \ {p}]

\* delete_participant
DeleteParticipantCall(v, participant_id, institution_id) ==
    LET found == OwnedParticipant(v, participant_id, institution_id) IN
    IF found = {}
    THEN [v |-> v, error |-> "Not found"]
    ELSE [v |-> DeleteRows(v, CHOOSE p \in found : TRUE), error |-> NoError]

\* The row update_participant works on (line 245).
UpdateTarget(v, participant_id, institution_id) ==
    OwnedParticipant(v, participant_id, institution_id)

\* update_participant
UpdateParticipantCall(v, participant_id, data, institution_id) ==
    LET found == UpdateTarget(v, participant_id, institution_id)
        p == CHOOSE x \in found : TRUE
        keys == DOMAIN data
        sex == IF "sex" \in keys THEN OrNone(FirstChar(UpperStr(data["sex"]))) ELSE p.sex
        parse == "birth_date" \in keys /\ data["birth_date"] # ""
        bd == IF parse THEN Some(Calendar[data["birth_date"]]) ELSE p.birth_date
        calc == CalcDivision(sex, bd)
        q == [p EXCEPT
                !.first_name = IF "first_name" \in keys THEN Strip(data["first_name"]) ELSE @,
                !.last_name = IF "last_name" \in keys THEN Strip(data["last_name"]) ELSE @,
                !.email = IF "email" \in keys THEN OrNone(Strip(data["email"])) ELSE @,
                !.contact = IF "contact" \in keys THEN OrNone(Strip(data["contact"])) ELSE @,
                !.sex = sex,
                !.birth_date = bd,
                !.division = IF calc # Null THEN calc ELSE @]
    IN  IF found = {} THEN [v |-> v, error |-> "Participant not found"]
        ELSE IF parse /\ ~IsDate(data["birth_date"])
        THEN [v |-> v, error |-> "Invalid birth_date"]
        ELSE [v |-> [v EXCEPT !.participants = (@ \ {p}) \cup {q}], error |-> NoError]

\* ------------------------------------------------------------- the store at start
\* The catalogue the registration handlers read: two seasons, two events, one
\* held in both seasons, as api_create_season and api_create_event leave
\* them.  No handler of this module changes it.
CatalogueSeasons == {[id |-> 1, year |-> 2024], [id |-> 2, year |-> 2025]}

CatalogueEvents ==
    {[id |-> 1, name |-> "Urban Challenge", event_type |-> "Walk"],
     [id |-> 2, name |-> "Fun Run", event_type |-> "Run"]}

CatalogueSeasonEvents ==
    {[id |-> 1, season_id |-> 1, event_id |-> 1, status |-> "active"],
     [id |-> 2, season_id |-> 1, event_id |-> 2, status |-> "active"],
     [id |-> 3, season_id |-> 2, event_id |-> 1, status |-> "active"]}

EmptyStore ==
    [institutions |-> Institutions,
     participants |-> {},
     seasons |-> CatalogueSeasons,
     events |-> CatalogueEvents,
     seasonEvents |-> CatalogueSeasonEvents,
     stages |-> {},
     registrations |-> {},
     bibNos |-> {},
     bibNoAssignments |-> {},
     bibTagAssignments |-> {},
     results |-> {}]

\* ------------------------------------------------------------- inputs
\* Season-event ids a request may name: the catalogue's.
SeasonEventIds == {se.id : se \in CatalogueSeasonEvents}

\* An id that SeasonEvent.query.get does not resolve.
Unresolved == MaxId(CatalogueSeasonEvents) + 1

RECURSIVE SeqsUpTo(_, _)
SeqsUpTo(S, n) ==
    IF n = 0 THEN {<<>>}
    ELSE LET shorter == SeqsUpTo(S, n - 1) IN
         shorter \cup {Append(q, x) : q \in shorter, x \in S}

Batches == SeqsUpTo(SeasonEventIds, MaxBatch)

ParticipantIds == 1..MaxParticipantId

AnnLee == [first_name |-> <<"A", "n", "n">>, last_name |-> <<"L", "e", "e">>]

BoRay == [first_name |-> <<"B", "o">>, last_name |-> <<"R", "a", "y">>]

NoCall == [op |-> "none", pid |-> 0, inst |-> 0, ses |-> <<>>, created |-> <<>>,
           error |-> NoError, flushed |-> 0]

NoPending == [registrations |-> {}, bibNos |-> {}, bibNoAssignments |-> {}]

\* A request slot with no request in it.
Idle == [pc |-> "idle", pid |-> 0, inst |-> 0, ses |-> <<>>, se |-> 0, reg |-> 0,
         bib_val |-> <<>>, pend |-> NoPending, created |-> <<>>, error |-> NoError]

NoRequests == [r \in 1..NumRequests |-> Idle]

NoCalls == <<>>

\* The store once add_participant has created Ann Lee for institution 1 and
\* Bo Ray for institution i.
TwoParticipants(i) ==
    CreateParticipantCall(CreateParticipantCall(EmptyStore, AnnLee, 1).v, BoRay, i).v

\* Spec starts with two participants, of one institution or of two.
Init ==
    /\ \E i \in Institutions : db = TwoParticipants(i)
    /\ last = NoCall
    /\ req = NoRequests
    /\ calls = NoCalls

\* ------------------------------------------------------------- handlers
\* POST /hr/api/participants
AddParticipant(data, institution_id) ==
    LET res == CreateParticipantCall(db, data, institution_id) IN
    /\ NewId(db.participants) <= MaxParticipantId
    /\ db' = res.v
    /\ last' = [NoCall EXCEPT !.op = "create", !.pid = res.id,
                              !.inst = institution_id, !.error = res.error]
    /\ UNCHANGED <<req, calls>>

\* PUT /hr/api/participants/<pid>
UpdateParticipant(participant_id, data, institution_id) ==
    LET res == UpdateParticipantCall(db, participant_id, data, institution_id) IN
    /\ db' = res.v
    /\ last' = [NoCall EXCEPT !.op = "update", !.pid = participant_id,
                              !.inst = institution_id, !.error = res.error]
    /\ UNCHANGED <<req, calls>>

\* POST /hr/api/participants/<pid>/register.  The call ends the run of
\* allocator look-ups that calls records: it is the caller that assigns.
Register(participant_id, season_event_ids, institution_id) ==
    LET res == RegisterCall(db, participant_id, season_event_ids, institution_id) IN
    /\ Cardinality(db.bibNos) + Len(season_event_ids) <= MaxBibs
    /\ db' = res.v
    /\ last' = [op |-> "register", pid |-> participant_id, inst |-> institution_id,
                ses |-> season_event_ids, created |-> res.created,
                error |-> res.error, flushed |-> res.flushed]
    /\ calls' = NoCalls
    /\ UNCHANGED req

\* DELETE /hr/api/participants/<pid>
DeleteParticipant(participant_id, institution_id) ==
    LET res == DeleteParticipantCall(db, participant_id, institution_id) IN
    /\ db' = res.v
    /\ last' = [NoCall EXCEPT !.op = "delete", !.pid = participant_id,
                              !.inst = institution_id, !.error = res.error]
    /\ UNCHANGED <<req, calls>>

\* The registration flow, one handler call per step.
Next ==
    \/ \E p \in ParticipantIds, b \in Batches, i \in Institutions : Register(p, b, i)
    \/ \E p \in ParticipantIds, i \in Institutions : DeleteParticipant(p, i)

Spec == Init /\ [][Next]_vars

\* ------------------------------------------------------------- properties of Spec
SeasonOf(v, season_event_id) ==
    (CHOOSE se \in v.seasonEvents : se.id = season_event_id).season_id

RegistrationsOf(v, participant_id, season_event_id) ==
    {r \in v.registrations : r.participant_id = participant_id
                             /\ r.season_event_id = season_event_id}

AssignmentsOf(v, registration_id) ==
    {a \in v.bibNoAssignments : a.registration_id = registration_id}

Elements(q) == {q[k] : k \in 1..Len(q)}

\* C1: in every reachable store no two BibNo rows of one season carry the
\* same bib_value, also when two institutions register in the same season.
C1_BibUniquePerSeason ==
    \A a \in db.bibNos : \A b \in db.bibNos :
        (a.season_id = b.season_id /\ a.bib_value = b.bib_value) => a = b

\* A second institution has asked for a bib in a season in which another
\* institution holds bibs.
C1_Witness ==
    /\ last.op = "register"
    /\ last.error = "IntegrityError"
    /\ \E a \in db.bibNos : \E b \in db.bibNos :
          /\ a # b
          /\ a.season_id = b.season_id
          /\ a.institution_id # last.inst
          /\ \E k \in 1..Len(last.ses) :
                /\ last.ses[k] \in {se.id : se \in db.seasonEvents}
                /\ SeasonOf(db, last.ses[k]) = a.season_id

\* C2: a register call never leaves two Registrations, or a Registration with
\* other than one bib assignment, for one (participant, season-event); an id
\* the participant is already registered for adds nothing to the created
\* list and changes none of its rows, and a call all of whose ids are already
\* registered returns no error, an empty list and leaves the store unchanged.
C2_RegisterTwiceStep ==
    last'.op = "register" =>
        /\ \A p \in db'.participants : \A se \in db'.seasonEvents :
              /\ Cardinality(RegistrationsOf(db', p.id, se.id)) <= 1
              /\ \A r \in RegistrationsOf(db', p.id, se.id) :
                    Cardinality(AssignmentsOf(db', r.id)) = 1
        /\ \A se \in Elements(last'.ses) :
              RegistrationsOf(db, last'.pid, se) # {} =>
                  /\ RegistrationsOf(db', last'.pid, se) = RegistrationsOf(db, last'.pid, se)
                  /\ \A k \in 1..Len(last'.created) :
                        \A r \in RegistrationsOf(db', last'.pid, se) :
                            last'.created[k].registration_id # r.id
        /\ \A se \in Elements(last'.ses) :
              Cardinality({k \in 1..Len(last'.created) :
                             \E r \in RegistrationsOf(db', last'.pid, se) :
                                 last'.created[k].registration_id = r.id}) <= 1
        /\ ( /\ \E p \in db.participants : p.id = last'.pid /\ p.institution_id = last'.inst
             /\ \A se \in Elements(last'.ses) : RegistrationsOf(db, last'.pid, se) # {} )
           => (last'.error = NoError /\ last'.created = <<>> /\ db' = db)

C2_RegisterTwice == [][C2_RegisterTwiceStep]_vars

\* A second request for a season-event the participant is registered for has
\* returned.
C2_Witness ==
    /\ last.op = "register"
    /\ last.error = NoError
    /\ last.created = <<>>
    /\ Len(last.ses) > 0
    /\ \A se \in Elements(last.ses) : RegistrationsOf(db, last.pid, se) # {}

\* One request that names a season-event twice has returned.
C2_WitnessRepeatedId ==
    /\ last.op = "register"
    /\ last.error = NoError
    /\ Len(last.ses) = 2
    /\ last.ses[1] = last.ses[2]
    /\ Len(last.created) = 1

\* C5: a register call that fails leaves the store as it was, and one that
\* does not fail has persisted every Registration, BibNo and BibNoAssignment
\* of its created list and no other new row.
C5_AllOrNothingStep ==
    last'.op = "register" =>
        /\ last'.error # NoError => db' = db
        /\ last'.error = NoError =>
              /\ \A k \in 1..Len(last'.created) :
                    \E r \in db'.registrations \ db.registrations :
                    \E a \in db'.bibNoAssignments \ db.bibNoAssignments :
                    \E b \in db'.bibNos \ db.bibNos :
                        /\ r.id = last'.created[k].registration_id
                        /\ a.registration_id = r.id
                        /\ a.bib_no_id = b.id
                        /\ b.bib_value = last'.created[k].bib_no
              /\ Cardinality(db'.registrations \ db.registrations) = Len(last'.created)
              /\ Cardinality(db'.bibNos \ db.bibNos) = Len(last'.created)
              /\ Cardinality(db'.bibNoAssignments \ db.bibNoAssignments) = Len(last'.created)

C5_AllOrNothing == [][C5_AllOrNothingStep]_vars

\* A call failed on a later id after an earlier id of the same call had got
\* its Registration, BibNo and assignment.
C5_Witness ==
    /\ last.op = "register"
    /\ last.error = "IntegrityError"
    /\ last.flushed >= 2

C10_OneActiveAssignment ==
    /\ \A r \in db.registrations :
          /\ Cardinality({a \in AssignmentsOf(db, r.id) : a.status = "active"}) = 1
          /\ Cardinality(AssignmentsOf(db, r.id)) = 1
          /\ \A a \in AssignmentsOf(db, r.id) :
                \E b \in db.bibNos : \E p \in db.participants :
                    /\ b.id = a.bib_no_id
                    /\ p.id = r.participant_id
                    /\ b.season_id = SeasonOf(db, r.season_event_id)
                    /\ b.institution_id = p.institution_id
    /\ last.op = "register" =>
          \A k \in 1..Len(last.created) :
              \A a \in AssignmentsOf(db, last.created[k].registration_id) :
                  \E b \in db.bibNos :
                      b.id = a.bib_no_id /\ b.bib_value = last.created[k].bib_no

\* A registration made after a participant was deleted: the deleted
\* participant's BibNo is left without assignment and the new registration
\* took the id of a deleted one.
C10_Witness ==
    /\ last.op = "register"
    /\ Len(last.created) > 0
    /\ \E b \in db.bibNos :
          /\ \A a \in db.bibNoAssignments : a.bib_no_id # b.id
          /\ \E k \in 1..Len(last.created) : last.created[k].registration_id <= b.id

\* ------------------------------------------------------------- concurrent requests
\* SpecRace runs register_participant_for_events as the statements it sends
\* to the database, for NumRequests requests at a time, each in its own
\* session and transaction.  The database is read-committed: a statement
\* sees the committed rows and the rows its own session has flushed; an
\* insert that breaks a unique constraint against such a row raises
\* IntegrityError, and one that collides with a row another transaction has
\* flushed and not yet committed waits for that transaction to end.  This is
\* the behaviour of the engines with row-level locking that
\* SQLALCHEMY_DATABASE_URI may name (PostgreSQL, MySQL/InnoDB); the handler
\* itself takes no lock and does not retry.
Requests == 1..NumRequests

InFlight(r) == req[r].pc \notin {"idle", "done", "failed"}

\* What request r's statements see.
View(r) ==
    [db EXCEPT !.registrations = @ \cup req[r].pend.registrations,
               !.bibNos = @ \cup req[r].pend.bibNos,
               !.bibNoAssignments = @ \cup req[r].pend.bibNoAssignments]

\* Rows other transactions have flushed and not committed.
OthersRegistrations(r) ==
    UNION {req[o].pend.registrations : o \in {x \in Requests : x # r /\ InFlight(x)}}

OthersBibNos(r) ==
    UNION {req[o].pend.bibNos : o \in {x \in Requests : x # r /\ InFlight(x)}}

\* Whether r's next insert waits for another transaction.
WaitsForRegistration(r) ==
    ~RegistrationUnique(OthersRegistrations(r), req[r].pid, req[r].se)

WaitsForBib(r) ==
    ~BibNoUnique(OthersBibNos(r), SeasonOf(db, req[r].se), req[r].bib_val)

Waits(r) ==
    \/ req[r].pc = "insreg" /\ WaitsForRegistration(r)
    \/ req[r].pc = "insbib" /\ WaitsForBib(r)

\* Lines 358-362: the request arrives and looks its participant up.
RaceBegin(r, participant_id, season_event_ids, institution_id) ==
    /\ req[r].pc = "idle"
    /\ req' = [req EXCEPT ![r] =
                 IF OwnedParticipant(db, participant_id, institution_id) = {}
                 THEN [Idle EXCEPT !.pc = "done", !.pid = participant_id,
                                   !.inst = institution_id,
                                   !.error = "Participant not found"]
                 ELSE [Idle EXCEPT !.pc = "check", !.pid = participant_id,
                                   !.inst = institution_id, !.ses = season_event_ids]]
    /\ UNCHANGED <<db, last, calls>>

\* Lines 363-371: the next id of the list; skipped when it does not resolve
\* or the participant is registered for it.
RaceCheck(r) ==
    /\ req[r].pc = "check"
    /\ req[r].ses # <<>>
    /\ LET se_id == Head(req[r].ses) IN
       req' = [req EXCEPT ![r] =
                 IF \/ se_id \notin {se.id : se \in db.seasonEvents}
                    \/ ~RegistrationUnique(View(r).registrations, req[r].pid, se_id)
                 THEN [@ EXCEPT !.ses = Tail(@)]
                 ELSE [@ EXCEPT !.pc = "insreg", !.se = se_id]]
    /\ UNCHANGED <<db, last, calls>>

\* Lines 373-375: the Registration is added and flushed.
RaceInsertRegistration(r) ==
    /\ req[r].pc = "insreg"
    /\ ~WaitsForRegistration(r)
    /\ LET reg == [id |-> NewId(View(r).registrations \cup OthersRegistrations(r)),
                   participant_id |-> req[r].pid,
                   season_event_id |-> req[r].se]
       IN  req' = [req EXCEPT ![r] =
                     IF ~RegistrationUnique(View(r).registrations, req[r].pid, req[r].se)
                     THEN [@ EXCEPT !.pc = "failed", !.pend = NoPending,
                                    !.error = "IntegrityError _part_seasonevent_uc"]
                     ELSE [@ EXCEPT !.pc = "latest", !.reg = reg.id,
                                    !.pend.registrations = @ \cup {reg}]]
    /\ UNCHANGED <<db, last, calls>>

\* Lines 339-346: the first query of _next_bib.
RaceLatest(r) ==
    /\ req[r].pc = "latest"
    /\ LET season_id == SeasonOf(db, req[r].se) IN
       req' = [req EXCEPT ![r] =
                 IF CountDriven(View(r), season_id, req[r].inst)
                 THEN [@ EXCEPT !.pc = "count"]
                 ELSE [@ EXCEPT !.pc = "insbib",
                                !.bib_val = LatestPlusOne(View(r), season_id, req[r].inst)]]
    /\ UNCHANGED <<db, last, calls>>

\* Lines 348-349: the count query of _next_bib.
RaceCount(r) ==
    /\ req[r].pc = "count"
    /\ req' = [req EXCEPT ![r] =
                 [@ EXCEPT !.pc = "insbib",
                           !.bib_val = CountBased(View(r), SeasonOf(db, req[r].se), req[r].inst)]]
    /\ UNCHANGED <<db, last, calls>>

\* Lines 379-390: the BibNo is added and flushed, the assignment added, the
\* entry appended to the created list.
RaceInsertBib(r) ==
    /\ req[r].pc = "insbib"
    /\ ~WaitsForBib(r)
    /\ LET season_id == SeasonOf(db, req[r].se)
           bib == [id |-> NewId(View(r).bibNos \cup OthersBibNos(r)),
                   bib_value |-> req[r].bib_val,
                   season_id |-> season_id, institution_id |-> req[r].inst]
           assignment == [registration_id |-> req[r].reg, bib_no_id |-> bib.id,
                          status |-> "active"]
           se == CHOOSE x \in db.seasonEvents : x.id = req[r].se
       IN  req' = [req EXCEPT ![r] =
                     IF ~BibNoUnique(View(r).bibNos, season_id, req[r].bib_val)
                     THEN [@ EXCEPT !.pc = "failed", !.pend = NoPending, !.created = <<>>,
                                    !.error = "IntegrityError _bibNo_season_uc"]
                     ELSE [@ EXCEPT !.pc = "check", !.ses = Tail(@),
                                    !.pend.bibNos = @ \cup {bib},
                                    !.pend.bibNoAssignments = @ \cup {assignment},
                                    !.created = Append(@, [registration_id |-> req[r].reg,
                                                           event_name |-> EventName(db, se),
                                                           bib_no |-> req[r].bib_val])]]
    /\ UNCHANGED <<db, last, calls>>

\* Line 392: the commit.
RaceCommit(r) ==
    /\ req[r].pc = "check"
    /\ req[r].ses = <<>>
    /\ db' = View(r)
    /\ req' = [req EXCEPT ![r] = [@ EXCEPT !.pc = "done", !.pend = NoPending]]
    /\ UNCHANGED <<last, calls>>

\* Two transactions that wait for each other: the database ends one of them
\* with an error.
RaceDeadlock(r) ==
    /\ Waits(r)
    /\ \A o \in Requests : (o # r /\ InFlight(o)) => Waits(o)
    /\ req' = [req EXCEPT ![r] = [@ EXCEPT !.pc = "failed", !.pend = NoPending,
                                           !.created = <<>>,
                                           !.error = "OperationalError deadlock"]]
    /\ UNCHANGED <<db, last, calls>>

\* The lists of the concurrent requests name the season-events of one event,
\* one per season.
RaceBatches == SeqsUpTo({se.id : se \in {x \in CatalogueSeasonEvents : x.event_id = 1}}, MaxBatch)

RaceNext ==
    \/ \E r \in Requests, p \in ParticipantIds, b \in RaceBatches, i \in Institutions :
          RaceBegin(r, p, b, i)
    \/ \E r \in Requests : RaceCheck(r)
    \/ \E r \in Requests : RaceInsertRegistration(r)
    \/ \E r \in Requests : RaceLatest(r)
    \/ \E r \in Requests : RaceCount(r)
    \/ \E r \in Requests : RaceInsertBib(r)
    \/ \E r \in Requests : RaceCommit(r)
    \/ \E r \in Requests : RaceDeadlock(r)

\* The requests arrive at a store that holds the two participants and, in
\* some runs, the registration of participant 1 for season-event 1.
RaceInit ==
    /\ \E i \in Institutions :
          db \in {TwoParticipants(i), RegisterCall(TwoParticipants(i), 1, <<1>>, 1).v}
    /\ last = NoCall
    /\ req = NoRequests
    /\ calls = NoCalls

SpecRace == RaceInit /\ [][RaceNext]_vars

\* ------------------------------------------------------------- properties of SpecRace
\* The values _next_bib has returned to request r for a pair and that r has
\* not committed: those of the BibNo rows it has flushed and the one it is
\* about to insert.
Allocated(r, season_id, institution_id) ==
    {b.bib_value : b \in {x \in req[r].pend.bibNos :
                             x.season_id = season_id /\ x.institution_id = institution_id}}
    \cup (IF /\ req[r].pc = "insbib"
             /\ SeasonOf(db, req[r].se) = season_id
             /\ req[r].inst = institution_id
          THEN {req[r].bib_val} ELSE {})

\* C3: two register requests in flight at once never hold the same bib value
\* for the same (season, institution) pair.
C3_DistinctAllocations ==
    \A r1 \in Requests : \A r2 \in Requests :
        (r1 # r2 /\ InFlight(r1) /\ InFlight(r2)) =>
            \A s \in CatalogueSeasons : \A i \in Institutions :
                Allocated(r1, s.id, i) \cap Allocated(r2, s.id, i) = {}

\* C4: no register request ends in failure for having lost the unique
\* constraint on (season_id, bib_value) to a request of its own (season,
\* institution) pair: the loser looks the latest bib up again and completes.
C4_LoserCompletes ==
    \A r \in Requests :
        (req[r].pc = "failed" /\ req[r].error = "IntegrityError _bibNo_season_uc") =>
            ~\E b \in db.bibNos :
                /\ b.season_id = SeasonOf(db, req[r].se)
                /\ b.institution_id = req[r].inst
                /\ b.bib_value = req[r].bib_val

\* ------------------------------------------------------------- allocator look-ups
\* SpecAlloc applies _next_bib, alone and inside the register handler, to
\* stores that hold BibNo rows from before the first request: rows of season
\* 1 whose values are numerals or text that int() rejects, as the except
\* ValueError branch of _next_bib expects to meet.
LegacyValues == {<<"A">>, Str(1001), Str(1003)}

LegacyLists ==
    {q \in SeqsUpTo(Institutions \X LegacyValues, MaxLegacy) :
        \A k \in 1..Len(q) : \A l \in 1..Len(q) : q[k][2] = q[l][2] => k = l}

\* The rows of a list, in the order of their creation.
LegacyBibNos(q) ==
    {[id |-> k, bib_value |-> q[k][2], season_id |-> 1, institution_id |-> q[k][1]] :
        k \in 1..Len(q)}

AllocInit ==
    /\ \E i \in Institutions : \E q \in LegacyLists :
          db = [TwoParticipants(i) EXCEPT !.bibNos = LegacyBibNos(q)]
    /\ last = NoCall
    /\ req = NoRequests
    /\ calls = NoCalls

\* One call of _next_bib(season_id, institution_id) that no insert follows:
\* the function reads the store and writes nothing.
NextBibCall(season_id, institution_id) ==
    /\ Len(calls) < MaxCalls
    /\ calls' = Append(calls, [season_id |-> season_id,
                               institution_id |-> institution_id,
                               count_driven |-> CountDriven(db, season_id, institution_id),
                               bib_val |-> NextBib(db, season_id, institution_id)])
    /\ UNCHANGED <<db, last, req>>

\* The register requests of SpecAlloc name one season-event each.
AllocBatches == {b \in Batches : Len(b) = 1}

AllocNext ==
    \/ \E s \in CatalogueSeasons, i \in Institutions : NextBibCall(s.id, i)
    \/ \E p \in ParticipantIds, b \in AllocBatches, i \in Institutions : Register(p, b, i)

SpecAlloc == AllocInit /\ [][AllocNext]_vars

\* ------------------------------------------------------------- properties of SpecAlloc
\* The latest BibNo of the pair carries a value int() rejects.
LegacyLatest(v, season_id, institution_id) ==
    /\ PairBibs(v, season_id, institution_id) # {}
    /\ ~IsNumeral(LatestBib(PairBibs(v, season_id, institution_id)).bib_value)

\* C7: of two allocator calls for one (season, institution) pair with no
\* assignment between them, both driven by the count-based fallback, the
\* later returns the larger value.
C7_StrictlyIncreasing ==
    \A k \in 1..Len(calls) : \A l \in 1..Len(calls) :
        ( /\ k < l
          /\ calls[k].season_id = calls[l].season_id
          /\ calls[k].institution_id = calls[l].institution_id
          /\ calls[k].count_driven
          /\ calls[l].count_driven )
        => ToInt(calls[k].bib_val) < ToInt(calls[l].bib_val)

\* C8: when the latest BibNo of a pair carries a non-numeric value, a call of
\* the allocator returns 1001 + the number of BibNo rows of the pair, and a
\* register call of an owned participant for one season-event of that pair,
\* not yet registered, returns without error with that value as its bib.
C8_LegacyToleratedStep ==
    /\ Len(calls') = Len(calls) + 1 =>
          LET c == calls'[Len(calls')] IN
          LegacyLatest(db, c.season_id, c.institution_id) =>
              c.bib_val = Str(1001 + Cardinality(PairBibs(db, c.season_id, c.institution_id)))
    /\ ( /\ calls' = NoCalls
         /\ last'.op = "register"
         /\ Len(last'.ses) = 1
         /\ last'.ses[1] \in {se.id : se \in db.seasonEvents}
         /\ OwnedParticipant(db, last'.pid, last'.inst) # {}
         /\ RegistrationsOf(db, last'.pid, last'.ses[1]) = {}
         /\ LegacyLatest(db, SeasonOf(db, last'.ses[1]), last'.inst) )
       => /\ last'.error = NoError
          /\ Len(last'.created) = 1
          /\ last'.created[1].bib_no =
                Str(1001 + Cardinality(PairBibs(db, SeasonOf(db, last'.ses[1]), last'.inst)))

C8_LegacyTolerated == [][C8_LegacyToleratedStep]_vars

\* ------------------------------------------------------------- the HR handlers together
\* SpecHR starts with no participant and runs the four handlers the hr_api
\* views give an HR user, each with the institution of the user who calls.
NewParticipants ==
    {AnnLee, [first_name |-> <<" ">>, last_name |-> <<"L", "e", "e">>]}

Changes ==
    {[sex |-> <<"f">>, birth_date |-> "1990-01-01"],
     [birth_date |-> "15/06/2010"]}

\* The register requests of SpecHR: one season-event, the same event in both
\* seasons, or a list that begins with an id that does not resolve.
HRBatches == {<<1>>, <<1, 3>>, <<Unresolved, 1>>}

HRInit ==
    /\ db = EmptyStore
    /\ last = NoCall
    /\ req = NoRequests
    /\ calls = NoCalls

HRNext ==
    \/ \E d \in NewParticipants, i \in Institutions : AddParticipant(d, i)
    \/ \E p \in ParticipantIds, d \in Changes, i \in Institutions : UpdateParticipant(p, d, i)
    \/ \E p \in ParticipantIds, b \in HRBatches, i \in Institutions : Register(p, b, i)
    \/ \E p \in ParticipantIds, i \in Institutions : DeleteParticipant(p, i)

SpecHR == HRInit /\ [][HRNext]_vars

\* ------------------------------------------------------------- properties of SpecHR
\* C9: a register, update or delete call that names a participant id that
\* does not exist, or a participant of another institution, leaves the store
\* unchanged and returns its not-found error; register returns it with an
\* empty list.
C9_NotFoundStep ==
    ( /\ last'.op \in {"register", "update", "delete"}
      /\ ~\E p \in db.participants : p.id = last'.pid /\ p.institution_id = last'.inst )
    => /\ db' = db
       /\ last'.op = "register" =>
             (last'.error = "Participant not found" /\ last'.created = <<>>)
       /\ last'.op = "update" => last'.error = "Participant not found"
       /\ last'.op = "delete" => last'.error = "Not found"

C9_NotFound == [][C9_NotFoundStep]_vars

\* A register call by the HR user of one institution for a participant of
\* the other has returned.
C9_Witness ==
    /\ last.op = "register"
    /\ last.error = "Participant not found"
    /\ last.ses # <<>>
    /\ \E p \in db.participants : p.id = last.pid /\ p.institution_id # last.inst

\* An update and a delete of a participant of the other institution have
\* returned.
C9_WitnessUpdate ==
    /\ last.op = "update"
    /\ last.error = "Participant not found"
    /\ \E p \in db.participants : p.id = last.pid /\ p.institution_id # last.inst

C9_WitnessDelete ==
    /\ last.op = "delete"
    /\ last.error = "Not found"
    /\ \E p \in db.participants : p.id = last.pid /\ p.institution_id # last.inst

\* ------------------------------------------------------------- the event catalogue
\* str.lower(), and lower() of the database, one character at a time.
LowerChar(c) ==
    IF \E i \in 1..26 : Upper[i] = c
    THEN Lower[CHOOSE i \in 1..26 : Upper[i] = c]
    ELSE c

LowerStr(s) == [i \in 1..Len(s) |-> LowerChar(s[i])]

\* data.get(key, default)
GetOr(data, key, default) == IF key \in DOMAIN data THEN data[key] ELSE default

\* The answer of an admin view: the store after the request, the HTTP status
\* and the error text.  An exception that no view catches (IntegrityError)
\* is Flask's 500 answer; the session is discarded with the request.
Answer(v, status, error) == [v |-> v, status |-> status, error |-> error]

\* A handler that does not look for the year before it inserts.
SeasonYearTakenNever(v, year) == FALSE

\* Season.query.filter_by(year=year).first()
SeasonYearTaken(v, year) == \E s \in v.seasons : s.year = year

\* api_create_season.  The year column is unique: an insert of a year the
\* table holds raises IntegrityError.
CreateSeasonCall(v, data) ==
    LET year == GetOr(data, "year", 0) IN
    IF year = 0 THEN Answer(v, 400, "year is required")
    ELSE IF SeasonYearTaken(v, year) THEN Answer(v, 409, "Season already exists")
    ELSE IF \E s \in v.seasons : s.year = year THEN Answer(v, 500, "IntegrityError")
    ELSE Answer([v EXCEPT !.seasons = @ \cup {[id |-> NewId(v.seasons), year |-> year]}],
                201, NoError)

\* A look-up that tells capitals from small letters.
SameNameEventsExact(v, name) == {e \in v.events : e.name = name}

\* Event.query.filter(db.func.lower(Event.name) == name.lower()): the rows
\* that first() may return (the query has no order_by).
SameNameEvents(v, name) == {e \in v.events : LowerStr(e.name) = LowerStr(name)}

\* The stage_number of one entry of the stages list: s.get('stage_number', 1).
StageNumber(s) == GetOr(s, "stage_number", Some(1))

\* The Stage rows a stages list adds for a season-event, beside the rows the
\* table holds.
RECURSIVE NewStages(_, _, _)
NewStages(rows, se_id, stages_data) ==
    IF stages_data = <<>> THEN {}
    ELSE LET st == [id |-> NewId(rows), season_event_id |-> se_id,
                    stage_number |-> StageNumber(Head(stages_data))]
         IN  {st} \cup NewStages(rows \cup {st}, se_id, Tail(stages_data))

\* UniqueConstraint('season_event_id', 'stage_number') on the stages of one
\* list: two entries with the same number break it (NULLs do not collide).
StagesUnique(stages_data) ==
    \A k \in 1..Len(stages_data) : \A l \in 1..Len(stages_data) :
        (k # l /\ StageNumber(stages_data[k]) # Null)
            => StageNumber(stages_data[k]) # StageNumber(stages_data[l])

\* A request that fails and keeps what it had written.
DiscardedNot(before, written) == written

\* What the store holds after a request that raised before its commit: the
\* session is removed with the request and its writes are rolled back.
Discarded(before, written) == before

NoEvent == [id |-> 0]

\* The Event that first() hands to api_create_event: any row of the name, or
\* none.
Picks(v, data) ==
    LET same == SameNameEvents(v, Strip(GetText(data, "name"))) IN
    IF same = {} THEN {NoEvent} ELSE same

\* A look-up that finds no SeasonEvent.
ExistingSeNone(v, season_id, event_id) == {}

\* existing_se of api_create_event: the SeasonEvents of the season and the
\* Event.
ExistingSe(v, season_id, event_id) ==
    {x \in v.seasonEvents : x.season_id = season_id /\ x.event_id = event_id}

\* api_create_event, with pick the row its look-up by name returned.  The
\* answer also names the Event and the SeasonEvent the request worked on.
CreateEventCall(v, data, pick) ==
    LET name == Strip(GetText(data, "name"))
        season_id == GetOr(data, "season_id", 0)
        event_type == GetOr(data, "event_type", "Walk")
        description == GetOr(data, "description", "")
        stages_data == GetOr(data, "stages", <<>>)
        event == IF pick = NoEvent
                 THEN [id |-> NewId(v.events), name |-> name,
                       event_type |-> event_type, description |-> description]
                 ELSE [pick EXCEPT !.event_type = event_type, !.description = description]
        v1 == [v EXCEPT !.events = (@ \ {pick}) \cup {event}]
        se == [id |-> NewId(v.seasonEvents), season_id |-> season_id,
               event_id |-> event.id, status |-> "active"]
        v2 == [v1 EXCEPT !.seasonEvents = @ \cup {se}]
        v3 == [v2 EXCEPT !.stages = @ \cup NewStages(@, se.id, stages_data)]
        none == [event |-> 0, se |-> 0, reused |-> FALSE]
    IN  IF Len(name) = 0 THEN Answer(v, 400, "name is required") @@ none
        ELSE IF season_id = 0 THEN Answer(v, 400, "season_id is required") @@ none
        ELSE IF ~\E x \in v.seasons : x.id = season_id THEN Answer(v, 404, "Not Found") @@ none
        ELSE IF ExistingSe(v1, season_id, event.id) # {}
        THEN Answer(Discarded(v, v1), 409, "already in season")
             @@ [event |-> event.id, se |-> 0, reused |-> pick # NoEvent]
        ELSE IF ~StagesUnique(stages_data)
        THEN Answer(Discarded(v, v2), 500, "IntegrityError")
             @@ [event |-> event.id, se |-> 0, reused |-> pick # NoEvent]
        ELSE Answer(v3, 201, NoError)
             @@ [event |-> event.id, se |-> se.id, reused |-> pick # NoEvent]

\* api_update_season_event: the Event fields the body names, then the old
\* stages deleted and the new list inserted, one commit at the end.
UpdateSeasonEventCall(v, se_id, data) ==
    LET found == {x \in v.seasonEvents : x.id = se_id}
        se == CHOOSE x \in found : TRUE
        old == CHOOSE e \in v.events : e.id = se.event_id
        event == [old EXCEPT
                    !.name = IF "name" \in DOMAIN data THEN Strip(data["name"]) ELSE @,
                    !.event_type = GetOr(data, "event_type", @),
                    !.description = GetOr(data, "description", @)]
        stages_data == GetOr(data, "stages", <<>>)
        v1 == [v EXCEPT !.events = (@ \ {old}) \cup {event},
                        !.stages = {st \in @ : st.season_event_id # se_id}]
        v2 == [v1 EXCEPT !.stages = @ \cup NewStages(@, se_id, stages_data)]
    IN  IF found = {} THEN Answer(v, 404, "Not Found")
        ELSE IF ~StagesUnique(stages_data)
        THEN Answer(Discarded(v, v1), 500, "IntegrityError")
        ELSE Answer(v2, 200, NoError)

\* A delete that takes the Event with the SeasonEvent.
DeleteSeasonEventRowsWithEvent(v, se) ==
    [v EXCEPT !.stages = {st \in @ : st.season_event_id # se.id},
              !.seasonEvents = @ \ {se},
              !.events = {e \in @ : e.id # se.event_id}]

\* The deletes of api_delete_season_event.
DeleteSeasonEventRows(v, se) ==
    [v EXCEPT !.stages = {st \in @ : st.season_event_id # se.id},
              !.seasonEvents = @ \ {se}]

\* api_delete_season_event.  The Registrations of the SeasonEvent are not
\* deleted: the flush sets their season_event_id to NULL, which the column
\* does not take, and raises IntegrityError.
DeleteSeasonEventCall(v, se_id) ==
    LET found == {x \in v.seasonEvents : x.id = se_id}
        se == CHOOSE x \in found : TRUE
    IN  IF found = {} THEN Answer(v, 404, "Not Found")
        ELSE IF \E r \in v.registrations : r.season_event_id = se_id
        THEN Answer(Discarded(v, DeleteSeasonEventRows(v, se)), 500, "IntegrityError")
        ELSE Answer(DeleteSeasonEventRows(v, se), 200, NoError)

\* ------------------------------------------------------------- the admin handlers
\* SpecAdmin starts with an empty catalogue and runs the admin views that
\* write it.
NoFields == <<>>

Fun == <<"F", "u", "n">>

Go == <<"G", "o">>

SeasonRequests == {NoFields, [year |-> 2024], [year |-> 2025]}

\* Stage lists of a body: one stage, and two stages of which the second
\* leaves its stage_number out.
OneStage == <<[stage_number |-> Some(1)]>>

RepeatedStages == <<[stage_number |-> Some(1)], NoFields>>

\* Bodies of api_create_event: two names with a stage for season 1, one with
\* the repeated stage, the first name in small letters with a trailing blank
\* and its own type for seasons 1 to 3 (no season 3 exists), a blank name
\* and a body without season_id.
EventRequests ==
    {[name |-> n, season_id |-> 1, stages |-> OneStage] : n \in {Fun, Go}}
    \cup {[name |-> Go, season_id |-> 1, stages |-> RepeatedStages]}
    \cup {[name |-> <<"f", "u", "n", " ">>, season_id |-> s,
           event_type |-> "Run", description |-> "5k"] : s \in 1..3}
    \cup {[name |-> <<" ">>, season_id |-> 1], [name |-> Fun]}

\* Bodies of api_update_season_event: the repeated stage, and a rename with
\* one stage of another number.
UpdateRequests ==
    {[stages |-> RepeatedStages],
     [name |-> <<" ", "f", "u", "n">>, stages |-> <<[stage_number |-> Some(2)]>>]}

\* The ids in the path of a season-event request: those of the rows of the
\* store and one that no row has.
SeasonEventPaths(v) == {se.id : se \in v.seasonEvents} \cup {NewId(v.seasonEvents)}

\* The cap on the rows the handlers create.
InBounds(v) == MaxId(v.events) + MaxId(v.seasonEvents) + MaxId(v.stages) <= MaxCatalogueIds

AdminEmpty == [EmptyStore EXCEPT !.seasons = {}, !.events = {}, !.seasonEvents = {}]

\* The catalogue once api_create_season has created season 2024.
OneSeason == CreateSeasonCall(AdminEmpty, [year |-> 2024]).v

AdminInit ==
    /\ db = OneSeason
    /\ last = NoCall
    /\ req = NoRequests
    /\ calls = NoCalls

\* What last keeps of an admin request: the view, its path id, the year,
\* name, season_id, event_type, description and status of its body, and the
\* answer.
AdminCall(op, se_id, data, res) ==
    [op |-> op, se_id |-> se_id,
     data |-> [k \in DOMAIN data \cap {"year", "name", "season_id", "event_type", "description", "status"}
                 |-> data[k]],
     status |-> res.status,
     error |-> res.error,
     event |-> IF "event" \in DOMAIN res THEN res.event ELSE 0,
     se |-> IF "se" \in DOMAIN res THEN res.se ELSE 0,
     reused |-> IF "reused" \in DOMAIN res THEN res.reused ELSE FALSE]

\* POST /admin/api/seasons
CreateSeason(data) ==
    LET res == CreateSeasonCall(db, data) IN
    /\ db' = res.v
    /\ last' = AdminCall("create_season", 0, data, res)
    /\ UNCHANGED <<req, calls>>

\* POST /admin/api/events
CreateEvent(data) ==
    \E pick \in Picks(db, data) :
        LET res == CreateEventCall(db, data, pick) IN
        /\ InBounds(res.v)
        /\ db' = res.v
        /\ last' = AdminCall("create_event", 0, data, res)
        /\ UNCHANGED <<req, calls>>

\* PUT /admin/api/season-events/<se_id>
UpdateSeasonEvent(se_id, data) ==
    LET res == UpdateSeasonEventCall(db, se_id, data) IN
    /\ InBounds(res.v)
    /\ db' = res.v
    /\ last' = AdminCall("update_season_event", se_id, data, res)
    /\ UNCHANGED <<req, calls>>

\* DELETE /admin/api/season-events/<se_id>
DeleteSeasonEvent(se_id) ==
    LET res == DeleteSeasonEventCall(db, se_id) IN
    /\ db' = res.v
    /\ last' = AdminCall("delete_season_event", se_id, NoFields, res)
    /\ UNCHANGED <<req, calls>>

AdminNext ==
    \/ \E d \in SeasonRequests : CreateSeason(d)
    \/ \E d \in EventRequests : CreateEvent(d)
    \/ \E se \in SeasonEventPaths(db), d \in UpdateRequests : UpdateSeasonEvent(se, d)
    \/ \E se \in SeasonEventPaths(db) : DeleteSeasonEvent(se)

SpecAdmin == AdminInit /\ [][AdminNext]_vars

\* ------------------------------------------------------------- properties of SpecAdmin
SeasonEventsOfEvent(v, event_id) == {se \in v.seasonEvents : se.event_id = event_id}

StagesOf(v, se_id) == {st \in v.stages : st.season_event_id = se_id}

\* C11: every call of register, create-season, create-event and
\* update-season-event ends with a typed answer (success, 400, 404, 409 or
\* the not-found value of register), never with an exception no handler
\* catches.
C11_TypedErrors ==
    /\ last.op = "register" => last.error \in {NoError, "Participant not found"}
    /\ last.op \in {"create_season", "create_event", "update_season_event"} =>
          last.status \in {200, 201, 400, 404, 409}

\* C16: a delete of a SeasonEvent that succeeds removes that SeasonEvent and
\* its Stages and leaves every Event, Season, other SeasonEvent and other
\* Stage as it was; a create-event that succeeds with the name of an
\* existing Event adds no Event and attaches its SeasonEvent to that Event.
C16_DeleteKeepsEventStep ==
    /\ (last'.op = "delete_season_event" /\ last'.status = 200) =>
          /\ db'.seasonEvents = {se \in db.seasonEvents : se.id # last'.se_id}
          /\ db'.seasonEvents # db.seasonEvents
          /\ db'.stages = db.stages \ StagesOf(db, last'.se_id)
          /\ db'.events = db.events
          /\ db'.seasons = db.seasons
          /\ db'.registrations = db.registrations
    /\ (last'.op = "create_event" /\ last'.status = 201) =>
          LET same == {e \in db.events :
                          LowerStr(e.name) = LowerStr(Strip(last'.data.name))}
          IN  same # {} =>
                 /\ {e.id : e \in db'.events} = {e.id : e \in db.events}
                 /\ \E se \in db'.seasonEvents \ db.seasonEvents :
                       /\ se.event_id \in {e.id : e \in same}
                       /\ db'.seasonEvents = db.seasonEvents \cup {se}

C16_DeleteKeepsEvent == [][C16_DeleteKeepsEventStep]_vars

\* A delete has left an Event without SeasonEvent while another SeasonEvent
\* keeps its stage.
C16_Witness ==
    /\ last.op = "delete_season_event"
    /\ last.status = 200
    /\ \E e \in db.events : SeasonEventsOfEvent(db, e.id) = {}
    /\ db.stages # {}

\* An Event whose SeasonEvent had been deleted has been attached to a season
\* again: it was reused and has one SeasonEvent only.
C16_WitnessReattached ==
    /\ last.op = "create_event"
    /\ last.status = 201
    /\ last.reused
    /\ Cardinality(SeasonEventsOfEvent(db, last.event)) = 1

\* C17: an update of a SeasonEvent that does not succeed leaves the store as
\* it was (the old Stages, the Event fields); one that succeeds leaves the
\* SeasonEvent with stages of distinct numbers and the Stages of the other
\* SeasonEvents as they were.
C17_ReplaceAtomicStep ==
    last'.op = "update_season_event" =>
        /\ last'.status # 200 => db' = db
        /\ last'.status = 200 =>
              /\ \A se \in db.seasonEvents :
                    se.id # last'.se_id => StagesOf(db', se.id) = StagesOf(db, se.id)
              /\ \A a \in StagesOf(db', last'.se_id) : \A b \in StagesOf(db', last'.se_id) :
                    (a.stage_number = b.stage_number /\ a.stage_number # Null) => a = b

C17_ReplaceAtomic == [][C17_ReplaceAtomicStep]_vars

\* An update whose second new stage repeated the number of the first has
\* failed on a SeasonEvent that had a stage.
C17_Witness ==
    /\ last.op = "update_season_event"
    /\ last.status = 500
    /\ StagesOf(db, last.se_id) # {}

\* C18: no two Event rows carry names that are equal ignoring case.
C18_EventNamesUnique ==
    \A a \in db.events : \A b \in db.events :
        LowerStr(a.name) = LowerStr(b.name) => a = b

\* The Events of the store whose name equals, ignoring case, the name of the
\* create-event request that last' records.
NamedByRequest == {e \in db.events : LowerStr(e.name) = LowerStr(Strip(last'.data.name))}

\* The store holds Event e with the event_type and description of the
\* request that last' records, its name and id as they were.
OverwrittenByRequest(e) ==
    [e EXCEPT !.event_type = GetOr(last'.data, "event_type", "Walk"),
              !.description = GetOr(last'.data, "description", "")] \in db'.events

\* C19, as the spec states it: every create-event call that names an
\* existing Event ignoring case (and a season that exists) adds no Event and
\* leaves one Event of that name with the event_type and description of the
\* request and its stored name.
C19_OverwriteOnEveryCallStep ==
    ( /\ last'.op = "create_event"
      /\ last'.status \in {201, 409, 500}
      /\ NamedByRequest # {} )
    => /\ {e.id : e \in db'.events} = {e.id : e \in db.events}
       /\ \E e \in NamedByRequest : OverwrittenByRequest(e)

C19_OverwriteOnSuccessStep ==
    ( /\ last'.op = "create_event"
      /\ last'.status \in {201, 409, 500}
      /\ NamedByRequest # {} )
    => /\ {e.id : e \in db'.events} = {e.id : e \in db.events}
       /\ last'.status = 201 =>
             \E e \in NamedByRequest :
                 /\ OverwrittenByRequest(e)
                 /\ db'.events \ db.events \subseteq
                       {[e EXCEPT !.event_type = GetOr(last'.data, "event_type", "Walk"),
                                  !.description = GetOr(last'.data, "description", "")]}
       /\ last'.status # 201 => db' = db

C19_WitnessRefused ==
    /\ last.op = "create_event"
    /\ last.status = 409
    /\ "event_type" \in DOMAIN last.data
    /\ \E e \in db.events : e.id = last.event /\ e.event_type = "Walk"

\* C20: the years of the Seasons are pairwise distinct; a create-season with
\* a year the store holds answers 409 and one without year answers 400, both
\* leaving the store as it was; any other adds one Season of that year.
C20_SeasonYearsUniqueStep ==
    /\ \A a \in db'.seasons : \A b \in db'.seasons : a.year = b.year => a = b
    /\ last'.op = "create_season" =>
          IF "year" \notin DOMAIN last'.data
          THEN last'.status = 400 /\ db' = db
          ELSE IF \E x \in db.seasons : x.year = last'.data.year
          THEN last'.status = 409 /\ db' = db
          ELSE /\ last'.status = 201
               /\ \E x \in db'.seasons \ db.seasons :
                     /\ x.year = last'.data.year
                     /\ db' = [db EXCEPT !.seasons = @ \cup {x}]

C20_SeasonYearsUnique == [][C20_SeasonYearsUniqueStep]_vars

\* A second create-season for a year has been refused, with two Seasons in
\* the store.
C20_Witness ==
    /\ last.op = "create_season"
    /\ last.status = 409
    /\ Cardinality(db.seasons) = 2

\* C21: no two SeasonEvents are of the same season and Event; a create-event
\* whose Event is in the season of the request already answers 409 and
\* leaves the store as it was.
C21_OnePerSeasonAndEventStep ==
    /\ \A a \in db'.seasonEvents : \A b \in db'.seasonEvents :
          (a.season_id = b.season_id /\ a.event_id = b.event_id) => a = b
    /\ ( /\ last'.op = "create_event"
         /\ last'.reused
         /\ ExistingSe(db, GetOr(last'.data, "season_id", 0), last'.event) # {} )
       => last'.status = 409 /\ db' = db
    /\ (last'.op = "create_event" /\ last'.status = 409)
       => /\ db' = db
          /\ ExistingSe(db, GetOr(last'.data, "season_id", 0), last'.event) # {}

C21_OnePerSeasonAndEvent == [][C21_OnePerSeasonAndEventStep]_vars

\* A create-event with another type for an Event of the season has been
\* refused; the Event has a stage in that season and the type it had.
C21_Witness ==
    /\ last.op = "create_event"
    /\ last.status = 409
    /\ GetOr(last.data, "event_type", "Walk") = "Run"
    /\ \E se \in ExistingSe(db, GetOr(last.data, "season_id", 0), last.event) :
          /\ StagesOf(db, se.id) # {}
          /\ \E e \in db.events : e.id = se.event_id /\ e.event_type = "Walk"

\* ------------------------------------------------------------- the dashboard figures
\* round(n / d) of Python for d > 0: the nearest integer, a tie going to the
\* even one.
RoundHalfEven(n, d) ==
    LET q == n \div d
        r == n - q * d
    IN  IF 2 * r < d THEN q
        ELSE IF 2 * r > d THEN q + 1
        ELSE IF q % 2 = 0 THEN q ELSE q + 1

\* pct(n, total) of api_metrics: the literal "0%" when total is falsy, else
\* the share rounded to one decimal and formatted as a float, "33.3%".
pct(n, total) ==
    IF total = 0 THEN <<"0", "%">>
    ELSE LET t == RoundHalfEven(1000 * n, total)
         IN  Str(t \div 10) \o <<".">> \o Str(t % 10) \o <<"%">>

\* reg_q of api_metrics.  The filters are query arguments read with
\* type=int; 0 stands for an argument that is absent (or 0: both falsy).
\* The event filter is applied inside the branch of the season filter.
RegQuery(v, season_id, event_id) ==
    IF season_id = 0 THEN v.registrations
    ELSE {r \in v.registrations :
             \E se \in v.seasonEvents :
                 /\ se.id = r.season_event_id
                 /\ se.season_id = season_id
                 /\ event_id # 0 => se.event_id = event_id}

\* The participated query without the joins and filters of the request.
ParticipatedIdsUnfiltered(v, season_id, event_id) ==
    {x.registration_id : x \in v.results}

\* participated_ids of api_metrics: the distinct registration ids of the
\* Results joined to Registration (and to SeasonEvent under the filters).
ParticipatedIds(v, season_id, event_id) ==
    {x.registration_id :
        x \in {y \in v.results :
                  \E r \in RegQuery(v, season_id, event_id) : r.id = y.registration_id}}

\* completed of api_metrics: the Results with a placement, joined to
\* Registration, under the season filter only.
CompletedQuery(v, season_id, event_id) ==
    {x \in v.results :
        /\ x.placement # Null
        /\ \E r \in RegQuery(v, season_id, 0) : r.id = x.registration_id}

MetricsCall(v, season_id, event_id) ==
    LET registered   == Cardinality(RegQuery(v, season_id, event_id))
        participated == Cardinality(ParticipatedIds(v, season_id, event_id))
        no_shows     == registered - participated
        completed    == Cardinality(CompletedQuery(v, season_id, event_id))
    IN  [registered |-> registered,
         participated |-> participated,
         participated_pct |-> pct(participated, registered),
         no_shows |-> no_shows,
         no_shows_pct |-> pct(no_shows, registered),
         completed |-> completed,
         completed_pct |-> pct(completed, registered)]

\* A count that leaves the joins out: every Registration under every year.
YearCountAll(v, year) == Cardinality(v.registrations)

\* count of one row of api_participation_by_year: the Registrations joined
\* to the Season of that year through SeasonEvent.
YearCount(v, year) ==
    Cardinality({r \in v.registrations :
                    \E se \in v.seasonEvents : \E x \in v.seasons :
                        /\ se.id = r.season_event_id
                        /\ x.id = se.season_id
                        /\ x.year = year})

\* The groups of the inner joins: the years with a Registration.
GroupedYears(v) == {x.year : x \in {y \in v.seasons : YearCount(v, y.year) > 0}}

\* order_by(Season.year): the years in ascending order.
RECURSIVE Ascending(_)
Ascending(S) ==
    IF S = {} THEN <<>>
    ELSE LET lo == CHOOSE x \in S : \A y \in S : x <= y
         IN  <<lo>> \o Ascending(S \ {lo})

ParticipationByYearCall(v) ==
    LET years  == Ascending(GroupedYears(v))
        counts == {YearCount(v, y) : y \in GroupedYears(v)}
        max_c  == IF counts = {} THEN 1 ELSE CHOOSE m \in counts : \A c \in counts : c <= m
    IN  [k \in 1..Len(years) |->
            [year |-> years[k],
             count |-> YearCount(v, years[k]),
             pct |-> RoundHalfEven(YearCount(v, years[k]) * 100, max_c)]]

\* The key of the sort of api_funnel: stage.stage_number or 0.
StageKey(st) == IF st.stage_number = Null THEN 0 ELSE st.stage_number[1]

RECURSIVE Orders(_)
Orders(S) ==
    IF S = {} THEN {<<>>}
    ELSE UNION {{<<x>> \o o : o \in Orders(S \ {x})} : x \in S}

\* sorted(se.stages, key=...): the sort is stable and the relationship is
\* loaded in no stated order, so stages of equal key come in either order.
SortedStages(S) ==
    {o \in Orders(S) : \A k \in 1..(Len(o) - 1) : StageKey(o[k]) <= StageKey(o[k + 1])}

\* A count of registered that is not that of the SeasonEvent.
FunnelRegisteredAll(v, se) == v.registrations

\* registered of api_funnel: the Registrations of the SeasonEvent.
FunnelRegistered(v, se) == {r \in v.registrations : r.season_event_id = se.id}

\* drop_pct of one stage, in tenths of a percent: round(..., 1) of the share
\* that did not finish, or 0 when nobody is registered.
DropPct(finishers, registered) ==
    IF registered # 0
    THEN RoundHalfEven(1000 * (registered - finishers), registered)
    ELSE 0

\* api_funnel, with stages the order the sort leaves.
FunnelCall(v, season_id, event_id, stages) ==
    LET ses == {x \in v.seasonEvents : x.season_id = season_id /\ x.event_id = event_id} IN
    IF season_id = 0 \/ event_id = 0
    THEN [status |-> 400, error |-> "season_id and event_id are required",
          registered |-> 0, funnel |-> <<>>]
    ELSE IF ses = {}
    THEN [status |-> 404, error |-> "Event not found in season",
          registered |-> 0, funnel |-> <<>>]
    ELSE LET se == CHOOSE x \in ses : TRUE
             registered == Cardinality(FunnelRegistered(v, se))
         IN  [status |-> 200, error |-> NoError,
              registered |-> registered,
              funnel |->
                 [k \in 1..Len(stages) |->
                     LET finishers == Cardinality({x \in v.results : x.stage_id = stages[k].id})
                     IN  [stage_number |-> stages[k].stage_number,
                          finishers |-> finishers,
                          drop_pct |-> DropPct(finishers, registered)]]]

\* The orders the stages of the SeasonEvent of a funnel request can take.
FunnelStages(v, season_id, event_id) ==
    LET ses == {x \in v.seasonEvents : x.season_id = season_id /\ x.event_id = event_id} IN
    SortedStages({st \in v.stages : \E x \in ses : st.season_event_id = x.id})

\* ------------------------------------------------------------- the stores of the figures
\* The catalogue as the admin handlers leave it: season 1 of 2025 created
\* before season 2 of 2024; "Fun" held in both seasons and "Go" in the first;
\* the first SeasonEvent with two stages, one of them without a number.
StageTables == {<<[stage_number |-> Some(2)], [stage_number |-> Null]>>}

MetricsCatalogue(stages_data) ==
    LET v1 == CreateSeasonCall(AdminEmpty, [year |-> 2025]).v
        v2 == CreateSeasonCall(v1, [year |-> 2024]).v
        v3 == CreateEventCall(v2, [name |-> Fun, season_id |-> 1, stages |-> stages_data],
                              NoEvent).v
        v4 == CreateEventCall(v3, [name |-> Go, season_id |-> 1], NoEvent).v
    IN  CreateEventCall(v4, [name |-> Fun, season_id |-> 2],
                        CHOOSE e \in v4.events : e.name = Fun).v

\* The Registration table with n[se] rows for SeasonEvent se, each of
\* another participant (a participant registers for a SeasonEvent once).
RegCounts == {n \in [1..3 -> 0..MaxRegs] : n[1] + n[2] + n[3] <= MaxRegs}

RegistrationRows(n) ==
    {[id |-> k, participant_id |-> k, season_event_id |-> 1] : k \in 1..n[1]}
    \cup {[id |-> n[1] + k, participant_id |-> k, season_event_id |-> 2] : k \in 1..n[2]}
    \cup {[id |-> n[1] + n[2] + k, participant_id |-> k, season_event_id |-> 3] : k \in 1..n[3]}

\* The Result tables of at most MaxResults rows over the registrations and
\* stages of a store, one row at most for a registration and a stage
\* (_result_reg_stage_uc).  A Result may be of a stage of another
\* SeasonEvent than its registration: no constraint ties the two.
RECURSIVE ResultTables(_, _, _)
ResultTables(regs, stages, n) ==
    IF n = 0 THEN {{}}
    ELSE LET less == ResultTables(regs, stages, n - 1) IN
         less \cup
         {t \cup {[registration_id |-> r.id, stage_id |-> st.id, placement |-> p]} :
             t \in less, r \in regs, st \in stages, p \in {Null, Some(1)}}

ResultUnique(t) ==
    \A a \in t : \A b \in t :
        (a.registration_id = b.registration_id /\ a.stage_id = b.stage_id) => a = b

MetricsStores(tables) ==
    UNION {
        {[v EXCEPT !.registrations = regs, !.results = t] :
            t \in {u \in ResultTables(regs, v.stages, MaxResults) : ResultUnique(u)}}
        : v \in {MetricsCatalogue(sd) : sd \in tables},
          regs \in {RegistrationRows(n) : n \in RegCounts}}

\* The values of the query arguments season_id and event_id; 0 for none.
SeasonArgs == 0..2

EventArgs == 0..2

MetricsInit ==
    /\ db \in MetricsStores(StageTables)
    /\ last = NoCall
    /\ req = NoRequests
    /\ calls = NoCalls

Metrics(season_id, event_id) ==
    /\ last' = [op |-> "metrics", season_id |-> season_id, event_id |-> event_id]
                  @@ MetricsCall(db, season_id, event_id)
    /\ UNCHANGED <<db, req, calls>>

ParticipationByYear ==
    /\ last' = [op |-> "participation_by_year", rows |-> ParticipationByYearCall(db)]
    /\ UNCHANGED <<db, req, calls>>

Funnel(season_id, event_id) ==
    /\ \E stages \in FunnelStages(db, season_id, event_id) :
          last' = [op |-> "funnel", season_id |-> season_id, event_id |-> event_id]
                     @@ FunnelCall(db, season_id, event_id, stages)
    /\ UNCHANGED <<db, req, calls>>

MetricsNext ==
    \/ \E s \in SeasonArgs : \E e \in EventArgs : Metrics(s, e)
    \/ ParticipationByYear
    \/ \E s \in SeasonArgs : \E e \in EventArgs : Funnel(s, e)

SpecMetrics == MetricsInit /\ [][MetricsNext]_vars

\* ------------------------------------------------------------- properties of SpecMetrics
\* C12: every answer of metrics() has registered = participated + no_shows;
\* when registered is 0, no_shows is 0 and every percentage is the literal
\* "0%".
C12_MetricsIdentity ==
    last.op = "metrics" =>
       /\ last.registered = last.participated + last.no_shows
       /\ last.registered = 0 =>
             /\ last.no_shows = 0
             /\ last.participated_pct = <<"0", "%">>
             /\ last.no_shows_pct = <<"0", "%">>
             /\ last.completed_pct = <<"0", "%">>

\* A filter that matches no Registration has been answered on a store that
\* holds Registrations and Results.
C12_Witness ==
    /\ last.op = "metrics"
    /\ last.registered = 0
    /\ db.registrations # {}
    /\ db.results # {}

\* An answer with no-shows and a share that is no whole number.
C12_WitnessShares ==
    /\ last.op = "metrics"
    /\ last.registered = 3
    /\ last.no_shows = 2
    /\ last.participated_pct = <<"3", "3", ".", "3", "%">>

\* The Registrations that match every filter the request supplies, each
\* filter on its own.
MatchingRegistrations(v, season_id, event_id) ==
    {r \in v.registrations :
        \E se \in v.seasonEvents :
            /\ se.id = r.season_event_id
            /\ season_id # 0 => se.season_id = season_id
            /\ event_id # 0 => se.event_id = event_id}

\* C13: registered, participated and completed of metrics() count the
\* Registrations, the Registrations with a Result and the Results with a
\* placement that match every supplied filter, the event filter also when
\* no season is given.
C13_CountsMatchFilters ==
    last.op = "metrics" =>
       LET regs == MatchingRegistrations(db, last.season_id, last.event_id) IN
       /\ last.registered = Cardinality(regs)
       /\ last.participated =
             Cardinality({r \in regs : \E x \in db.results : x.registration_id = r.id})
       /\ last.completed =
             Cardinality({x \in db.results :
                             /\ x.placement # Null
                             /\ \E r \in regs : r.id = x.registration_id})

\* C14: participationByYear() has one entry for each season with a
\* Registration and for no other, in ascending order of year; an entry of
\* the largest count has pct 100 and every other round(count / max * 100),
\* at most 100.
C14_ParticipationByYear ==
    last.op = "participation_by_year" =>
       LET rows == last.rows
           with == {x \in db.seasons :
                       \E se \in db.seasonEvents : \E r \in db.registrations :
                           se.season_id = x.id /\ r.season_event_id = se.id}
       IN  /\ Len(rows) = Cardinality(with)
           /\ {rows[k].year : k \in 1..Len(rows)} = {x.year : x \in with}
           /\ \A k \in 1..(Len(rows) - 1) : rows[k].year < rows[k + 1].year
           /\ \A k \in 1..Len(rows) :
                 /\ rows[k].count =
                       Cardinality({r \in db.registrations :
                                       \E se \in db.seasonEvents : \E x \in with :
                                           /\ x.year = rows[k].year
                                           /\ se.season_id = x.id
                                           /\ r.season_event_id = se.id})
                 /\ rows[k].pct <= 100
                 /\ (\A l \in 1..Len(rows) : rows[l].count <= rows[k].count)
                       => rows[k].pct = 100
                 /\ \A l \in 1..Len(rows) :
                       (\A j \in 1..Len(rows) : rows[j].count <= rows[l].count)
                          => rows[k].pct = RoundHalfEven(rows[k].count * 100, rows[l].count)

\* Both seasons have an entry, the later-created season of the earlier year
\* first, and the smaller count is rounded from a third.
C14_Witness ==
    /\ last.op = "participation_by_year"
    /\ Len(last.rows) = 2
    /\ last.rows[1] = [year |-> 2024, count |-> 1, pct |-> 50]
    /\ last.rows[2] = [year |-> 2025, count |-> 2, pct |-> 100]

\* A season without Registration has no entry.
C14_WitnessLeftOut ==
    /\ last.op = "participation_by_year"
    /\ Len(last.rows) = 1
    /\ Cardinality(db.seasons) = 2

\* C15: funnel() of a SeasonEvent without Registration answers drop_pct 0
\* for every stage, the stages in ascending order of stage_number with a
\* missing number as 0, whatever Results the store holds.
C15_FunnelNoRegistration ==
    last.op = "funnel" =>
       \A se \in db.seasonEvents :
          ( /\ se.season_id = last.season_id
            /\ se.event_id = last.event_id
            /\ \A r \in db.registrations : r.season_event_id # se.id )
          => /\ last.status = 200
             /\ last.registered = 0
             /\ Len(last.funnel) = Cardinality(StagesOf(db, se.id))
             /\ {last.funnel[k].stage_number : k \in 1..Len(last.funnel)}
                   = {st.stage_number : st \in StagesOf(db, se.id)}
             /\ \A k \in 1..Len(last.funnel) : last.funnel[k].drop_pct = 0
             /\ \A k \in 1..(Len(last.funnel) - 1) :
                   StageKey(last.funnel[k]) <= StageKey(last.funnel[k + 1])

\* The funnel of a SeasonEvent without Registration has been answered while
\* one of its stages has a Result; the stage without number comes first.
C15_Witness ==
    /\ last.op = "funnel"
    /\ last.status = 200
    /\ last.registered = 0
    /\ Len(last.funnel) = 2
    /\ last.funnel[1].stage_number = Null
    /\ last.funnel[2].stage_number = Some(2)
    /\ \E k \in 1..2 : last.funnel[k].finishers > 0

\* C29: every answer of metrics() has completed <= participated <=
\* registered, so that completed_pct is at most 100%.
C29_CompletedWithinParticipated ==
    last.op = "metrics" =>
       /\ last.completed <= last.participated
       /\ last.participated <= last.registered
       /\ last.completed <= last.registered

\* The part of C29 the code keeps: participated is at most registered.
C29_ParticipatedWithinRegistered ==
    last.op = "metrics" => last.participated <= last.registered

\* ------------------------------------------------------------- status and stats
\* SeasonEvent.status is the column the admin and HR handlers read and write
\* (admin.py:224, 293, 333; hr.py:330).

\* A check that lets every status through.
ValidStatusAny(status) == TRUE

\* status in ('active', 'inactive')
ValidStatus(status) == status \in {"active", "inactive"}

\* api_set_season_event_status
SetSeasonEventStatusCall(v, se_id, data) ==
    LET found  == {x \in v.seasonEvents : x.id = se_id}
        status == GetOr(data, "status", "")
    IN  IF found = {} THEN Answer(v, 404, "Not Found")
        ELSE IF ~ValidStatus(status)
        THEN Answer(v, 400, "status must be active or inactive")
        ELSE LET se == CHOOSE x \in found : TRUE IN
             Answer([v EXCEPT !.seasonEvents = (@ \ {se}) \cup {[se EXCEPT !.status = status]}],
                    200, NoError)

\* The Season created last.
LatestSeasonCreated(v) == {x \in v.seasons : \A y \in v.seasons : y.id <= x.id}

\* Season.query.order_by(Season.year.desc()).first(): the Season of the
\* largest year, none in an empty table.
LatestSeason(v) == {x \in v.seasons : \A y \in v.seasons : y.year <= x.year}

\* api_stats, without the count of users.  current_season is Null for the
\* sentinel the view answers when there is no Season.
StatsCall(v) ==
    [active_events |-> Cardinality({x \in v.seasonEvents : x.status = "active"}),
     current_season |-> IF LatestSeason(v) = {} THEN Null
                        ELSE Some((CHOOSE x \in LatestSeason(v) : TRUE).year)]

\* Bodies of the requests of SpecStatus: two seasons, created in either
\* order; two Events for the season created first; a change of type with a
\* stage; and the statuses, one of them unknown, one missing.
StatusSeasonRequests == {[year |-> 2024], [year |-> 2025]}

StatusEventRequests ==
    {[name |-> Fun, season_id |-> 1, stages |-> OneStage], [name |-> Go, season_id |-> 1]}

StatusUpdateRequests == {[event_type |-> "Run", stages |-> OneStage]}

StatusRequests == {[status |-> "active"], [status |-> "inactive"], [status |-> "closed"], NoFields}

StatusInit ==
    /\ db = AdminEmpty
    /\ last = NoCall
    /\ req = NoRequests
    /\ calls = NoCalls

\* PATCH /admin/api/season-events/<se_id>/status
SetSeasonEventStatus(se_id, data) ==
    LET res == SetSeasonEventStatusCall(db, se_id, data) IN
    /\ db' = res.v
    /\ last' = AdminCall("set_status", se_id, data, res)
    /\ UNCHANGED <<req, calls>>

\* GET /admin/api/stats
Stats ==
    /\ last' = [op |-> "stats"] @@ StatsCall(db)
    /\ UNCHANGED <<db, req, calls>>

StatusNext ==
    \/ \E d \in StatusSeasonRequests : CreateSeason(d)
    \/ \E d \in StatusEventRequests : CreateEvent(d)
    \/ \E se \in SeasonEventPaths(db), d \in StatusUpdateRequests : UpdateSeasonEvent(se, d)
    \/ \E se \in SeasonEventPaths(db), d \in StatusRequests : SetSeasonEventStatus(se, d)
    \/ Stats

SpecStatus == StatusInit /\ [][StatusNext]_vars

\* ------------------------------------------------------------- properties of SpecStatus
\* C22: the status of every SeasonEvent is active or inactive; a new
\* SeasonEvent is active; a set-status with active or inactive sets the
\* status of its SeasonEvent, whatever it was, and of no other; one with
\* another value answers 400 and changes nothing; no other request changes
\* the status of a SeasonEvent.
C22_StatusStep ==
    LET old == {x \in db.seasonEvents : x.id = last'.se_id} IN
    /\ \A x \in db'.seasonEvents : x.status \in {"active", "inactive"}
    /\ \A x \in db'.seasonEvents :
          (\A y \in db.seasonEvents : y.id # x.id) => x.status = "active"
    /\ (last'.op = "set_status" /\ old # {}) =>
          IF GetOr(last'.data, "status", "") \in {"active", "inactive"}
          THEN /\ last'.status = 200
               /\ db' = [db EXCEPT !.seasonEvents =
                            {IF x \in old THEN [x EXCEPT !.status = last'.data.status] ELSE x
                                : x \in @}]
          ELSE last'.status = 400 /\ db' = db
    /\ last'.op # "set_status" =>
          \A x \in db.seasonEvents : \E y \in db'.seasonEvents :
              y.id = x.id /\ y.status = x.status

C22_WitnessUpdate ==
    /\ last.op = "update_season_event"
    /\ last.status = 200
    /\ \E x \in db.seasonEvents : x.id = last.se_id /\ x.status = "inactive"

C25_WitnessNoSeason ==
    /\ last.op = "stats"
    /\ last.current_season = Null

\* ------------------------------------------------------------- bulk import
\* str(row.get(k1) or row.get(k2) or '').strip() for the text cells of a row.
RowText(row, k1, k2) ==
    Strip(IF GetText(row, k1) # <<>> THEN row[k1] ELSE GetText(row, k2))

\* The same for the birth date cell; the date texts of the model have no
\* blanks to strip.
RowDate(row) ==
    IF GetOr(row, "birth_date", "") # "" THEN row["birth_date"]
    ELSE GetOr(row, "Birth Date", "")

\* A check that tells capitals from small letters.
CheckDuplicateExact(v, first_name, last_name, institution_id) ==
    \E p \in v.participants :
        /\ p.institution_id = institution_id
        /\ p.first_name = first_name
        /\ p.last_name = last_name

\* check_duplicate
CheckDuplicate(v, first_name, last_name, institution_id) ==
    \E p \in v.participants :
        /\ p.institution_id = institution_id
        /\ LowerStr(p.first_name) = LowerStr(first_name)
        /\ LowerStr(p.last_name) = LowerStr(last_name)

\* One turn of the loop of bulk_create_participants, on row i of the list.
BulkRow(st, i, row, institution_id) ==
    LET fn == RowText(row, "first_name", "First Name")
        ln == RowText(row, "last_name", "Last Name")
        res == CreateParticipantCall(st.v,
                   [first_name |-> fn, last_name |-> ln,
                    birth_date |-> RowDate(row),
                    sex |-> RowText(row, "sex", "Sex"),
                    email |-> RowText(row, "email", "Email"),
                    contact |-> RowText(row, "contact", "Phone")],
                   institution_id)
    IN  IF Len(fn) = 0 \/ Len(ln) = 0
        THEN [st EXCEPT !.skipped = @ + 1]
        ELSE IF CheckDuplicate(st.v, fn, ln, institution_id)
        THEN [st EXCEPT !.skipped = @ + 1, !.errors = Append(@, <<i, "already exists">>)]
        ELSE IF res.error # NoError
        THEN [st EXCEPT !.skipped = @ + 1, !.errors = Append(@, <<i, res.error>>)]
        ELSE [st EXCEPT !.v = res.v, !.added = @ + 1]

RECURSIVE BulkLoop(_, _, _, _)
BulkLoop(st, i, rows, institution_id) ==
    IF i > Len(rows) THEN st
    ELSE BulkLoop(BulkRow(st, i, rows[i], institution_id), i + 1, rows, institution_id)

\* bulk_create_participants: the loop over the rows and the commit.
BulkCreateParticipantsCall(v, rows, institution_id) ==
    BulkLoop([v |-> v, added |-> 0, skipped |-> 0, errors |-> <<>>], 1, rows, institution_id)

\* Bodies of add_participant in SpecPeople: a name alone, a name with sex
\* and birth date, and a name with a division and nothing to derive it from.
PeopleRequests ==
    {AnnLee,
     AnnLee @@ [sex |-> <<"f">>, birth_date |-> "1990-01-01"],
     BoRay @@ [division |-> <<"X">>]}

\* Bodies of update_participant: the sex cleared, and sex and birth date set.
PeopleChanges ==
    {[sex |-> <<>>], [sex |-> <<"m">>, birth_date |-> "1960-05-20"]}

\* Rows of an import: Ann Lee; Ann Lee under the headers of a spreadsheet,
\* in other letters and with a blank; Bo Ray with a birth date in another
\* format; Bo Ray; and a row without a last name.
ImportRows ==
    {AnnLee,
     ("First Name" :> <<"a", "n", "n", " ">>) @@ ("Last Name" :> <<"L", "E", "E">>)
        @@ ("Sex" :> <<"F">>) @@ ("Birth Date" :> "1990-01-01"),
     BoRay @@ [birth_date |-> "15/06/2010"],
     BoRay,
     [first_name |-> <<"B", "o">>]}

\* The lists of an import: up to MaxBatch rows.
ImportLists == SeqsUpTo(ImportRows, MaxBatch) \ {<<>>}

PeopleInit ==
    /\ db = EmptyStore
    /\ last = NoCall
    /\ req = NoRequests
    /\ calls = NoCalls

\* POST /hr/api/participants/bulk-import with a list of rows.
BulkImport(rows, institution_id) ==
    \E res \in {BulkCreateParticipantsCall(db, rows, institution_id)} :
        /\ MaxId(res.v.participants) <= MaxParticipantId
        /\ db' = res.v
        /\ last' = [op |-> "bulk_import", inst |-> institution_id, rows |-> rows,
                    added |-> res.added, skipped |-> res.skipped, errors |-> res.errors]
        /\ UNCHANGED <<req, calls>>

\* SpecPeople runs add_participant and update_participant.
PeopleNext ==
    \/ \E d \in PeopleRequests, i \in Institutions : AddParticipant(d, i)
    \/ \E p \in ParticipantIds, d \in PeopleChanges, i \in Institutions : UpdateParticipant(p, d, i)

SpecPeople == PeopleInit /\ [][PeopleNext]_vars

\* The bulk_import view returns the counts and the errors to the client
\* (hr_api.py:131); the next request is taken after that.
ImportAnswered ==
    /\ last.op = "bulk_import"
    /\ last' = NoCall
    /\ UNCHANGED <<db, req, calls>>

\* SpecImport runs the import beside add_participant.
ImportNext ==
    \/ /\ last.op # "bulk_import"
       /\ \E i \in Institutions : AddParticipant(AnnLee, i)
    \/ /\ last.op # "bulk_import"
       /\ \E rows \in ImportLists, i \in Institutions : BulkImport(rows, i)
    \/ ImportAnswered

SpecImport == PeopleInit /\ [][ImportNext]_vars

\* ------------------------------------------------------------- properties of SpecPeople
\* C23: the division of every stored participant is the division derived
\* from its stored sex and birth date, and is unset when either is absent.
C23_DivisionDerived ==
    \A p \in db.participants : p.division = CalcDivision(p.sex, p.birth_date)

\* An update has cleared the sex of a participant, whose division is still
\* the one derived before.
C23_ClearedSexKeepsDivision ==
    /\ last.op = "update"
    /\ last.error = NoError
    /\ \E p \in db.participants :
          p.id = last.pid /\ p.sex = Null /\ p.birth_date # Null /\ p.division # Null

\* The name of a row, in small letters, and the rows that create_participant
\* takes.
ImportName(row) ==
    <<LowerStr(RowText(row, "first_name", "First Name")),
      LowerStr(RowText(row, "last_name", "Last Name"))>>

ImportValid(row) ==
    /\ ImportName(row)[1] # <<>>
    /\ ImportName(row)[2] # <<>>
    /\ RowDate(row) = "" \/ IsDate(RowDate(row))

StoredNames(v, institution_id) ==
    {<<LowerStr(p.first_name), LowerStr(p.last_name)>> :
        p \in {q \in v.participants : q.institution_id = institution_id}}

\* C24: a bulk import answers added + skipped = the number of rows; it adds
\* one participant for every name, compared without regard to case, that a
\* valid row of the list carries and no participant of the institution has,
\* and skips every other row; the participants it adds are those the store
\* gains, they are all of the caller's institution, and no participant that
\* was stored is changed.
C24_PartialSuccessStep ==
    last'.op = "bulk_import" =>
       LET rows == last'.rows
           new == db'.participants \ db.participants
           valid == {ImportName(rows[k]) : k \in {j \in 1..Len(rows) : ImportValid(rows[j])}}
       IN  /\ last'.added + last'.skipped = Len(rows)
           /\ Cardinality(new) = last'.added
           /\ db.participants \subseteq db'.participants
           /\ \A p \in new : p.institution_id = last'.inst
           /\ last'.added = Cardinality(valid \ StoredNames(db, last'.inst))
           /\ {<<LowerStr(p.first_name), LowerStr(p.last_name)>> : p \in new}
                 = valid \ StoredNames(db, last'.inst)
           /\ [db' EXCEPT !.participants = {}] = [db EXCEPT !.participants = {}]

C24_PartialSuccess == [][C24_PartialSuccessStep]_vars

\* An import of two rows has added the first and skipped the second, which
\* carries the name of the first in other letters.
C24_Witness ==
    /\ last.op = "bulk_import"
    /\ Len(last.rows) = 2
    /\ last.rows[1] = AnnLee
    /\ ImportName(last.rows[2]) = ImportName(AnnLee)
    /\ last.rows[2] # AnnLee
    /\ last.added = 1
    /\ last.skipped = 1
    /\ Cardinality(db.participants) = 1

\* An import has skipped a row with a birth date it cannot read and added
\* the row after it; and one has skipped a row for a participant the other
\* institution also has.
C24_WitnessBadDate ==
    /\ last.op = "bulk_import"
    /\ Len(last.rows) = 2
    /\ ~ImportValid(last.rows[1])
    /\ last.added = 1
    /\ last.skipped = 1

C24_WitnessStored ==
    /\ last.op = "bulk_import"
    /\ last.added = 1
    /\ last.skipped = 0
    /\ Cardinality(db.participants) = 2
    /\ \E p \in db.participants : \E q \in db.participants :
          /\ p.institution_id # q.institution_id
          /\ LowerStr(p.first_name) = LowerStr(q.first_name)
          /\ LowerStr(p.last_name) = LowerStr(q.last_name)

\* ------------------------------------------------------------- the HR dashboard
\* reg_q of get_hr_dashboard_data for one season: the Registrations of the
\* season and the institution, under the event_types and divisions filters
\* when the request carries them (an empty set is a filter left out).
HRRegistered(v, season, institution_id, event_types, divisions) ==
    {r \in v.registrations :
        \E se \in v.seasonEvents : \E p \in v.participants :
            /\ se.id = r.season_event_id
            /\ p.id = r.participant_id
            /\ se.season_id = season.id
            /\ p.institution_id = institution_id
            /\ event_types # {} =>
                  \E e \in v.events : e.id = se.event_id /\ e.event_type \in event_types
            /\ divisions # {} => (p.division # Null /\ p.division[1] \in divisions)}

\* participated of get_hr_dashboard_data: the distinct Registrations of the
\* season and the institution that have a Result.
HRParticipated(v, season, institution_id) ==
    {r \in HRRegistered(v, season, institution_id, {}, {}) :
        \E x \in v.results : x.registration_id = r.id}

\* get_hr_dashboard_data: one row for a season, in the order of the years;
\* part_rate in tenths of a percent.  The two chart lists of a row are left
\* out.
HRDashboardCall(v, institution_id, season_ids, event_types, divisions) ==
    LET all == {x \in v.seasons : season_ids # {} => x.id \in season_ids}
        years == Ascending({x.year : x \in all})
    IN  [k \in 1..Len(years) |->
            LET season == CHOOSE x \in all : x.year = years[k]
                registered == Cardinality(HRRegistered(v, season, institution_id,
                                                       event_types, divisions))
                participated == Cardinality(HRParticipated(v, season, institution_id))
            IN  [season_id |-> season.id,
                 year |-> season.year,
                 registered |-> registered,
                 participated |-> participated,
                 no_shows |-> registered - participated,
                 part_rate |-> IF registered # 0
                               THEN RoundHalfEven(1000 * participated, registered)
                               ELSE 0]]

\* ------------------------------------------------------------- the stores of the records
\* The catalogue: season 2024 with "Fun", a Walk with one stage, and "Go", a
\* Run without stages.
RecordsCatalogue ==
    LET v1 == CreateEventCall(OneSeason, [name |-> Fun, season_id |-> 1, stages |-> OneStage],
                              NoEvent).v
    IN  CreateEventCall(v1, [name |-> Go, season_id |-> 1, event_type |-> "Run"], NoEvent).v

\* Ann Lee of institution 1, with a sex and a birth date, and Bo Ray of
\* institution i, as add_participant leaves them.
RecordsPeople(i) ==
    LET v1 == CreateParticipantCall(RecordsCatalogue,
                  AnnLee @@ [sex |-> <<"f">>, birth_date |-> "1990-01-01"], 1).v
    IN  CreateParticipantCall(v1, BoRay, i).v

\* The register calls that fill the store, each of a participant for one
\* SeasonEvent, in the order they are made.
RegisterOrder == <<<<1, 1>>, <<2, 1>>, <<1, 2>>, <<2, 2>>>>

RegisterPlans ==
    {S \in SUBSET (1..Len(RegisterOrder)) : Cardinality(S) <= MaxRegs}

RECURSIVE Registered(_, _, _)
Registered(v, k, S) ==
    IF k > Len(RegisterOrder) THEN v
    ELSE LET pid == RegisterOrder[k][1]
             p == CHOOSE x \in v.participants : x.id = pid
         IN  Registered(IF k \in S
                        THEN RegisterCall(v, pid, <<RegisterOrder[k][2]>>, p.institution_id).v
                        ELSE v,
                        k + 1, S)

\* Results and BibTagAssignments are written by no handler of the
\* controllers.  A store holds a tag for every Registration and at most
\* MaxResults Results, each of a Registration and of a Stage of the
\* SeasonEvent of that Registration.
Tagged(v) ==
    [v EXCEPT !.bibTagAssignments =
        {[registration_id |-> r.id, bib_tag_id |-> r.id, status |-> "active"] :
            r \in v.registrations}]

ResultOfOwnStage(v, x) ==
    \E r \in v.registrations : \E st \in v.stages :
        /\ r.id = x.registration_id
        /\ st.id = x.stage_id
        /\ st.season_event_id = r.season_event_id

RecordStores(institutions) ==
    UNION {
        {[v EXCEPT !.results = t] :
            t \in {u \in ResultTables(v.registrations, v.stages, MaxResults) :
                      ResultUnique(u) /\ \A x \in u : ResultOfOwnStage(v, x)}}
        : v \in {Tagged(Registered(RecordsPeople(i), 1, S)) :
                    i \in institutions, S \in RegisterPlans}}

\* Bodies of api_update_season_event in SpecRecords: no stage, and one.
RecordsUpdates == {[stages |-> <<>>], [stages |-> OneStage]}

\* The filters of a dashboard request; an empty set for a filter left out.
SeasonFilters == {{}, {1}}

EventTypeFilters == {{}, {"Run"}}

DivisionFilters == {{}, {<<"F", "4", "0", "4", "9">>}}

RecordsInit ==
    /\ db \in RecordStores(Institutions)
    /\ last = NoCall
    /\ req = NoRequests
    /\ calls = NoCalls

\* GET /hr/api/dashboard
HRDashboard(institution_id, season_ids, event_types, divisions) ==
    /\ last' = [op |-> "hr_dashboard", inst |-> institution_id, season_ids |-> season_ids,
                event_types |-> event_types, divisions |-> divisions,
                rows |-> HRDashboardCall(db, institution_id, season_ids, event_types,
                                         divisions)]
    /\ UNCHANGED <<db, req, calls>>

RecordsNext ==
    \/ \E p \in ParticipantIds, i \in Institutions : DeleteParticipant(p, i)
    \/ \E p \in ParticipantIds, se \in SeasonEventPaths(db), i \in Institutions :
          Register(p, <<se>>, i)
    \/ \E d \in {[name |-> Go, season_id |-> 1, stages |-> OneStage]} : CreateEvent(d)
    \/ \E se \in SeasonEventPaths(db), d \in RecordsUpdates : UpdateSeasonEvent(se, d)
    \/ \E se \in SeasonEventPaths(db) : DeleteSeasonEvent(se)
    \/ \E e \in EventArgs : Funnel(1, e)

SpecRecords == RecordsInit /\ [][RecordsNext]_vars

\* SpecDashboard reads the dashboard on the stores of SpecRecords, between
\* deletes of participants.
DashboardNext ==
    \/ \E p \in ParticipantIds, i \in Institutions : DeleteParticipant(p, i)
    \/ \E i \in Institutions, s \in SeasonFilters, t \in EventTypeFilters,
          d \in DivisionFilters : HRDashboard(i, s, t, d)

SpecDashboard == RecordsInit /\ [][DashboardNext]_vars

\* ------------------------------------------------------------- properties of SpecRecords
\* C26: a delete of a participant by its institution removes the
\* participant, its Registrations and the BibNoAssignments,
\* BibTagAssignments and Results of those Registrations, so that no row
\* refers to the participant or to one of its Registrations; every other row
\* of the store is as it was.
C26_DeleteOwnedStep ==
    (last'.op = "delete" /\ last'.error = NoError) =>
       LET regs == {r.id : r \in {x \in db.registrations : x.participant_id = last'.pid}} IN
       /\ \E p \in db.participants : p.id = last'.pid /\ p.institution_id = last'.inst
       /\ ~\E p \in db'.participants : p.id = last'.pid
       /\ ~\E r \in db'.registrations : r.participant_id = last'.pid \/ r.id \in regs
       /\ ~\E x \in db'.bibNoAssignments : x.registration_id \in regs
       /\ ~\E x \in db'.bibTagAssignments : x.registration_id \in regs
       /\ ~\E x \in db'.results : x.registration_id \in regs
       /\ db'.participants = {p \in db.participants : p.id # last'.pid}
       /\ db'.registrations = {r \in db.registrations : r.participant_id # last'.pid}
       /\ db'.bibNoAssignments = {x \in db.bibNoAssignments : x.registration_id \notin regs}
       /\ db'.bibTagAssignments = {x \in db.bibTagAssignments : x.registration_id \notin regs}
       /\ db'.results = {x \in db.results : x.registration_id \notin regs}
       /\ \A f \in DOMAIN db \ {"participants", "registrations", "bibNoAssignments",
                                "bibTagAssignments", "results"} : db'[f] = db[f]

C26_DeleteOwned == [][C26_DeleteOwnedStep]_vars

\* A participant with a Registration has been deleted (its BibNo is left
\* without an assignment) beside a participant who keeps a Registration with
\* its assignments and a Result.
C26_Witness ==
    /\ last.op = "delete"
    /\ last.error = NoError
    /\ \E b \in db.bibNos : ~\E x \in db.bibNoAssignments : x.bib_no_id = b.id
    /\ \E r \in db.registrations :
          /\ \E x \in db.bibNoAssignments : x.registration_id = r.id
          /\ \E x \in db.bibTagAssignments : x.registration_id = r.id
          /\ \E x \in db.results : x.registration_id = r.id

\* C27: every Registration refers to an existing SeasonEvent and an existing
\* Participant, and every Result to an existing Registration and to an
\* existing Stage of the SeasonEvent of that Registration.
C27_ReferentialIntegrity ==
    /\ \A r \in db.registrations :
          /\ \E se \in db.seasonEvents : se.id = r.season_event_id
          /\ \E p \in db.participants : p.id = r.participant_id
    /\ \A x \in db.results : ResultOfOwnStage(db, x)

\* The part of C27 that holds: every Registration refers to an existing
\* SeasonEvent and Participant, and every Result to an existing Registration.
C27_RegistrationsResolve ==
    /\ \A r \in db.registrations :
          /\ \E se \in db.seasonEvents : se.id = r.season_event_id
          /\ \E p \in db.participants : p.id = r.participant_id
    /\ \A x \in db.results : \E r \in db.registrations : r.id = x.registration_id

\* C30: in every answer of funnel() the finishers of a stage are at most the
\* registered of the SeasonEvent, and drop_pct lies between 0 and 100.
C30_FunnelWithinRegistered ==
    (last.op = "funnel" /\ last.status = 200) =>
       \A k \in 1..Len(last.funnel) :
          /\ last.funnel[k].finishers <= last.registered
          /\ last.funnel[k].drop_pct >= 0
          /\ last.funnel[k].drop_pct <= 1000

\* An answer of funnel() with a negative drop_pct.
C30_NegativeDrop ==
    /\ last.op = "funnel"
    /\ last.status = 200
    /\ \E k \in 1..Len(last.funnel) : last.funnel[k].drop_pct < 0

\* ------------------------------------------------------------- properties of SpecDashboard
\* C28: in every row of the HR dashboard, under every combination of the
\* filters, participated <= registered, no_shows >= 0 and part_rate <= 100.
C28_ParticipatedWithinRegistered ==
    last.op = "hr_dashboard" =>
       \A k \in 1..Len(last.rows) :
          /\ last.rows[k].participated <= last.rows[k].registered
          /\ last.rows[k].no_shows >= 0
          /\ last.rows[k].part_rate <= 1000

\* A row of the dashboard with a part_rate above 100.
C28_RateAboveHundred ==
    /\ last.op = "hr_dashboard"
    /\ \E k \in 1..Len(last.rows) : last.rows[k].part_rate > 1000

\* The same for the requests without an event_type and a division filter,
\* where it holds.
C28_WithoutFilters ==
    (last.op = "hr_dashboard" /\ last.event_types = {} /\ last.divisions = {}) =>
       \A k \in 1..Len(last.rows) :
          /\ last.rows[k].participated <= last.rows[k].registered
          /\ last.rows[k].no_shows >= 0
          /\ last.rows[k].part_rate <= 1000

====
